---- MODULE Spec2Model ----
(***************************************************************************)
(* A model of the interactive questionnaires: the response collector of    *)
(* EnhancedAnalysisQuestionnaire (get_user_input, conduct_questionnaire),  *)
(* the validating collector of ExperimentMonitoringQuestionnaire and its   *)
(* date validators.                                                        *)
(*                                                                         *)
(* A line of text (what input() returns, a stored text answer) is a        *)
(* sequence of one-character strings; an option of a question is a string. *)
(***************************************************************************)
EXTENDS Integers, Sequences, FiniteSets, TLC

VARIABLES
    cls,                    \* class of the questionnaire instance
    pc,                     \* position of the run
    selected_question_set,  \* self.selected_question_set
    questions,              \* self.questions
    qi,                     \* 1-based index of the question being asked
    responses,              \* self.responses: question id -> answer
    now,                    \* what datetime.now() returns during the run
    last,                   \* the outcome of the latest prompt
    call,                   \* the latest call of a function and its result
    analysis_results,       \* self.analysis_results: section -> analysis
    out                     \* the notable messages printed so far, in order

vars == <<cls, pc, selected_question_set, questions, qi, responses, now, last, call,
         analysis_results, out>>

----------------------------------------------------------------------------
(* Bounds of the model.                                                    *)

\* longest line typed at a prompt of get_user_input taken alone
MaxLineLen == 3

\* the dates given to the validators taken alone lie in months 1..MaxMonth
MaxMonth == 3

----------------------------------------------------------------------------
(* Text: str.strip, str.split, int().                                      *)

Chars == {"0", "1", "2", "9", ",", " ", "-", "x"}

DigitChars == <<"0", "1", "2", "3", "4", "5", "6", "7", "8", "9">>

IsDigit(c) == \E i \in 1..10 : DigitChars[i] = c

DigitVal(c) == (CHOOSE i \in 1..10 : DigitChars[i] = c) - 1

AllDigits(s) == \A i \in 1..Len(s) : IsDigit(s[i])

RECURSIVE DigitsValue(_)
DigitsValue(s) ==
    IF s = <<>> THEN 0
    ELSE DigitsValue(SubSeq(s, 1, Len(s) - 1)) * 10 + DigitVal(s[Len(s)])

\* str.isspace() on the characters of the model
IsSpace(c) == c \in {" ", "\n"}

\* str.strip(): whitespace removed at both ends
RECURSIVE Strip(_)
Strip(s) ==
    IF s = <<>> THEN s
    ELSE IF IsSpace(s[1]) THEN Strip(Tail(s))
    ELSE IF IsSpace(s[Len(s)]) THEN Strip(SubSeq(s, 1, Len(s) - 1))
    ELSE s

\* str.split(sep): the fields between the separators, empty fields kept
RECURSIVE Split(_, _)
Split(s, sep) ==
    IF \A i \in 1..Len(s) : s[i] # sep THEN <<s>>
    ELSE LET i == CHOOSE k \in 1..Len(s) :
                      s[k] = sep /\ \A j \in 1..(k - 1) : s[j] # sep
         IN  <<SubSeq(s, 1, i - 1)>> \o Split(SubSeq(s, i + 1, Len(s)), sep)

\* the value of a text without surrounding whitespace: one sign allowed,
\* then digits only; ok = FALSE stands for ValueError
ParseStripped(s) ==
    LET neg  == s # <<>> /\ s[1] = "-"
        body == IF s # <<>> /\ s[1] \in {"-", "+"} THEN Tail(s) ELSE s
    IN  IF body # <<>> /\ AllDigits(body)
        THEN [ok |-> TRUE, val |-> IF neg THEN 0 - DigitsValue(body) ELSE DigitsValue(body)]
        ELSE [ok |-> FALSE, val |-> 0]

\* int(text)
ParseInt(text) == ParseStripped(Strip(text))

----------------------------------------------------------------------------
(* Calendar: datetime.strptime(text, "%Y-%m-%d"), date order, day gaps.    *)

IsLeap(y) == (y % 4 = 0) /\ ((y % 100 # 0) \/ (y % 400 = 0))

DaysInMonth(y, m) ==
    IF m = 2 THEN (IF IsLeap(y) THEN 29 ELSE 28)
    ELSE IF m \in {4, 6, 9, 11} THEN 30 ELSE 31

DaysBeforeYear(y) ==
    (y - 1) * 365 + ((y - 1) \div 4) - ((y - 1) \div 100) + ((y - 1) \div 400)

RECURSIVE DaysBeforeMonth(_, _)
DaysBeforeMonth(y, m) ==
    IF m = 1 THEN 0 ELSE DaysBeforeMonth(y, m - 1) + DaysInMonth(y, m - 1)

\* date.toordinal(): days since 0001-01-01, which is day 1
Ordinal(y, m, d) == DaysBeforeYear(y) + DaysBeforeMonth(y, m) + d

NoDate == [ok |-> FALSE, ord |-> 0]

\* the date of a year, a month and a day, if that day exists
DateOf(y, m, d) ==
    IF y >= 1 /\ m \in 1..12 /\ d >= 1 /\ d <= DaysInMonth(y, m)
    THEN [ok |-> TRUE, ord |-> Ordinal(y, m, d)]
    ELSE NoDate

\* %Y is exactly four digits, %m and %d one or two digits (%d also a space
\* and a digit)
FieldsToDate(f) ==
    IF Len(f) # 3 THEN NoDate
    ELSE LET dayf == IF Len(f[3]) = 2 /\ f[3][1] = " " THEN Tail(f[3]) ELSE f[3]
         IN  IF Len(f[1]) = 4 /\ AllDigits(f[1])
                /\ Len(f[2]) \in {1, 2} /\ AllDigits(f[2])
                /\ Len(f[3]) \in {1, 2} /\ dayf # <<>> /\ AllDigits(dayf)
             THEN DateOf(DigitsValue(f[1]), DigitsValue(f[2]), DigitsValue(dayf))
             ELSE NoDate

\* datetime.strptime(text, "%Y-%m-%d"); ok = FALSE stands for ValueError
Strptime(text) == FieldsToDate(Split(text, "-"))

----------------------------------------------------------------------------
(* The date validators of ExperimentMonitoringQuestionnaire.  A validation *)
(* result is the dictionary {is_valid, warnings, errors}.                  *)

Result(v, w, e) == [is_valid |-> v, warnings |-> w, errors |-> e]

Valid == Result(TRUE, <<>>, <<>>)

Msg(cond, text) == IF cond THEN <<text>> ELSE <<>>

\* a text is truthy when it is not empty
Truthy(text) == text # <<>>

\* dict.get(key, "")
Get(resp, key) == IF key \in DOMAIN resp THEN resp[key] ELSE <<>>

_validate_date_format(date_string) == Strptime(date_string).ok

\* today.replace(year=y) raises ValueError when the day does not exist in
\* year y
ReplaceYearOk(t, y) == y >= 1 /\ t.d <= DaysInMonth(y, t.m)

\* a midnight datetime of ordinal o is before the datetime t
BeforeDateTime(o, t) ==
    o < Ordinal(t.y, t.m, t.d) \/ (o = Ordinal(t.y, t.m, t.d) /\ t.tod > 0)

\* a midnight datetime of ordinal o is after the datetime t
AfterDateTime(o, t) == o > Ordinal(t.y, t.m, t.d)

\* the warnings of _validate_date_range
RangeWarnings(s, e, today, five_years_ago) ==
    Msg(AfterDateTime(s.ord, today), "Start date is in the future")
    \o Msg(AfterDateTime(e.ord, today), "End date is in the future")
    \o Msg(BeforeDateTime(s.ord, five_years_ago), "Start date is more than 5 years ago")
    \o Msg(BeforeDateTime(e.ord, five_years_ago), "End date is more than 5 years ago")

\* the body of _validate_date_range on the parsed dates
RangeResult(s, e, today) ==
    IF ~s.ok \/ ~e.ok \/ ~ReplaceYearOk(today, today.y - 5)
    THEN Result(FALSE, <<>>, <<"Invalid date format">>)
    ELSE Result(~(s.ord >= e.ord),
                RangeWarnings(s, e, today, [today EXCEPT !.y = today.y - 5]),
                Msg(s.ord >= e.ord, "Start date must be before end date"))

_validate_date_range(start_date, end_date, today) ==
    RangeResult(Strptime(start_date), Strptime(end_date), today)

\* the warnings of _validate_experiment_timing; the large-gap warning is
\* kept without the number of days its text carries
GapWarnings_six(gap_days) ==
    (IF gap_days > 30
     THEN <<"Large gap between control and test periods may affect comparison validity">>
     ELSE Msg(gap_days < 0,
              "Control and test periods overlap - this may invalidate your baseline comparison"))
    \o Msg(0 <= gap_days /\ gap_days <= 6,
           "Very small gap between control and test periods - ensure no carryover effects")

GapWarnings_nooverlap(gap_days) ==
    (IF gap_days > 30
     THEN <<"Large gap between control and test periods may affect comparison validity">>
     ELSE <<>>)
    \o Msg(0 <= gap_days /\ gap_days <= 7,
           "Very small gap between control and test periods - ensure no carryover effects")

GapWarnings(gap_days) ==
    (IF gap_days > 30
     THEN <<"Large gap between control and test periods may affect comparison validity">>
     ELSE Msg(gap_days < 0,
              "Control and test periods overlap - this may invalidate your baseline comparison"))
    \o Msg(0 <= gap_days /\ gap_days <= 7,
           "Very small gap between control and test periods - ensure no carryover effects")

\* the body of _validate_experiment_timing on the parsed dates
TimingResult(cs, ce, ts, te) ==
    IF ~cs.ok \/ ~ce.ok \/ ~ts.ok \/ ~te.ok
    THEN Result(FALSE, <<>>, <<"Date format error - cannot validate timing relationship">>)
    ELSE Result(~(ce.ord >= ts.ord),
                GapWarnings(ts.ord - ce.ord),
                Msg(ce.ord >= ts.ord,
                    "Control period should end before test period begins for proper baseline comparison"))

_validate_experiment_timing(control_start, control_end, test_start, test_end) ==
    TimingResult(Strptime(control_start), Strptime(control_end),
                 Strptime(test_start), Strptime(test_end))

----------------------------------------------------------------------------
(* The question catalog: the static sets of questionnaire_config.py, the   *)
(* employee satisfaction set and the experiment monitoring set.  A         *)
(* question is its dictionary without the wording ("question",             *)
(* "help_text"), which no operation reads but to print it.                 *)

BUSINESS_ANALYSIS_QUESTIONS ==
    <<
      [id |-> "business_type",
       type |-> "multiple_choice",
       options |-> <<"Technology", "Finance", "Healthcare", "Retail", "Manufacturing", "Other">>,
       required |-> TRUE],
      [id |-> "company_size",
       type |-> "multiple_choice",
       options |-> <<"1-10 employees", "11-50 employees", "51-200 employees", "201-1000 employees", "1000+ employees">>,
       required |-> TRUE],
      [id |-> "revenue_range",
       type |-> "multiple_choice",
       options |-> <<"Under $100K", "$100K - $1M", "$1M - $10M", "$10M - $100M", "$100M+">>,
       required |-> TRUE],
      [id |-> "growth_rate",
       type |-> "multiple_choice",
       options |-> <<"Declining", "Stable", "Growing slowly (1-10%)", "Growing moderately (10-25%)", "Growing rapidly (25%+)">>,
       required |-> TRUE],
      [id |-> "market_position",
       type |-> "multiple_choice",
       options |-> <<"Market leader", "Strong competitor", "Established player", "Emerging player", "Niche player">>,
       required |-> TRUE],
      [id |-> "challenges",
       type |-> "multi_select",
       options |-> <<"Market competition", "Regulatory compliance", "Technology disruption", "Talent acquisition", "Financial constraints", "Supply chain issues", "Customer retention">>,
       required |-> TRUE],
      [id |-> "opportunities",
       type |-> "text",
       required |-> FALSE],
      [id |-> "risk_factors",
       type |-> "text",
       required |-> FALSE],
      [id |-> "recommendations",
       type |-> "text",
       required |-> FALSE]
    >>

INVESTMENT_ANALYSIS_QUESTIONS ==
    <<
      [id |-> "investment_type",
       type |-> "multiple_choice",
       options |-> <<"Stocks", "Bonds", "Real Estate", "Startup/Private Equity", "Commodities", "Cryptocurrency", "Other">>,
       required |-> TRUE],
      [id |-> "investment_horizon",
       type |-> "multiple_choice",
       options |-> <<"Short-term (1-3 years)", "Medium-term (3-10 years)", "Long-term (10+ years)">>,
       required |-> TRUE],
      [id |-> "risk_tolerance",
       type |-> "multiple_choice",
       options |-> <<"Conservative", "Moderate", "Aggressive">>,
       required |-> TRUE],
      [id |-> "expected_return",
       type |-> "multiple_choice",
       options |-> <<"2-5%", "5-10%", "10-15%", "15-25%", "25%+">>,
       required |-> TRUE],
      [id |-> "market_conditions",
       type |-> "multiple_choice",
       options |-> <<"Bear market", "Sideways/Volatile", "Bull market", "Uncertain">>,
       required |-> TRUE],
      [id |-> "diversification",
       type |-> "multiple_choice",
       options |-> <<"Not diversified", "Somewhat diversified", "Well diversified", "Highly diversified">>,
       required |-> TRUE],
      [id |-> "liquidity_needs",
       type |-> "multiple_choice",
       options |-> <<"High (need cash within 1 year)", "Medium (1-3 years)", "Low (3+ years)">>,
       required |-> TRUE],
      [id |-> "investment_goals",
       type |-> "multi_select",
       options |-> <<"Capital preservation", "Income generation", "Capital appreciation", "Tax efficiency", "Inflation protection">>,
       required |-> TRUE],
      [id |-> "concerns",
       type |-> "text",
       required |-> FALSE]
    >>

PROJECT_MANAGEMENT_QUESTIONS ==
    <<
      [id |-> "project_type",
       type |-> "multiple_choice",
       options |-> <<"Software Development", "Construction", "Marketing Campaign", "Research", "Process Improvement", "Other">>,
       required |-> TRUE],
      [id |-> "project_size",
       type |-> "multiple_choice",
       options |-> <<"Small (1-3 months)", "Medium (3-12 months)", "Large (1-3 years)", "Enterprise (3+ years)">>,
       required |-> TRUE],
      [id |-> "team_size",
       type |-> "multiple_choice",
       options |-> <<"1-3 people", "4-8 people", "9-20 people", "20+ people">>,
       required |-> TRUE],
      [id |-> "budget_range",
       type |-> "multiple_choice",
       options |-> <<"Under $10K", "$10K - $100K", "$100K - $1M", "$1M+">>,
       required |-> TRUE],
      [id |-> "timeline_pressure",
       type |-> "multiple_choice",
       options |-> <<"No pressure", "Some pressure", "High pressure", "Critical deadline">>,
       required |-> TRUE],
      [id |-> "stakeholder_complexity",
       type |-> "multiple_choice",
       options |-> <<"Simple", "Moderate", "Complex", "Very complex">>,
       required |-> TRUE],
      [id |-> "technical_risks",
       type |-> "multi_select",
       options |-> <<"New technology", "Integration challenges", "Performance requirements", "Security concerns", "Scalability issues", "None">>,
       required |-> TRUE],
      [id |-> "resource_availability",
       type |-> "multiple_choice",
       options |-> <<"Excellent", "Good", "Fair", "Poor">>,
       required |-> TRUE],
      [id |-> "success_criteria",
       type |-> "text",
       required |-> FALSE],
      [id |-> "potential_issues",
       type |-> "text",
       required |-> FALSE]
    >>

CUSTOMER_SATISFACTION_QUESTIONS ==
    <<
      [id |-> "customer_segment",
       type |-> "multiple_choice",
       options |-> <<"B2B Enterprise", "B2B SMB", "B2C Premium", "B2C Mass Market", "Government", "Non-profit">>,
       required |-> TRUE],
      [id |-> "interaction_channel",
       type |-> "multiple_choice",
       options |-> <<"In-person", "Phone", "Email", "Website", "Mobile App", "Social Media", "Multiple channels">>,
       required |-> TRUE],
      [id |-> "satisfaction_level",
       type |-> "multiple_choice",
       options |-> <<"Very dissatisfied", "Dissatisfied", "Neutral", "Satisfied", "Very satisfied">>,
       required |-> TRUE],
      [id |-> "loyalty_level",
       type |-> "multiple_choice",
       options |-> <<"Not loyal", "Somewhat loyal", "Loyal", "Very loyal", "Extremely loyal">>,
       required |-> TRUE],
      [id |-> "pain_points",
       type |-> "multi_select",
       options |-> <<"Product quality", "Customer service", "Pricing", "Ease of use", "Support response time", "Documentation", "None">>,
       required |-> TRUE],
      [id |-> "improvement_areas",
       type |-> "text",
       required |-> FALSE],
      [id |-> "positive_feedback",
       type |-> "text",
       required |-> FALSE],
      [id |-> "recommendation_likelihood",
       type |-> "multiple_choice",
       options |-> <<"Very unlikely", "Unlikely", "Neutral", "Likely", "Very likely">>,
       required |-> TRUE]
    >>

custom_questions ==
    <<
      [id |-> "department",
       type |-> "multiple_choice",
       options |-> <<"Engineering", "Sales", "Marketing", "HR", "Finance", "Operations", "Other">>,
       required |-> TRUE],
      [id |-> "tenure",
       type |-> "multiple_choice",
       options |-> <<"Less than 1 year", "1-3 years", "3-5 years", "5-10 years", "10+ years">>,
       required |-> TRUE],
      [id |-> "job_satisfaction",
       type |-> "rating",
       scale |-> 10,
       required |-> TRUE],
      [id |-> "work_life_balance",
       type |-> "rating",
       scale |-> 5,
       required |-> TRUE],
      [id |-> "career_growth",
       type |-> "rating",
       scale |-> 5,
       required |-> TRUE],
      [id |-> "compensation",
       type |-> "rating",
       scale |-> 5,
       required |-> TRUE],
      [id |-> "management_support",
       type |-> "rating",
       scale |-> 5,
       required |-> TRUE],
      [id |-> "team_collaboration",
       type |-> "rating",
       scale |-> 5,
       required |-> TRUE],
      [id |-> "company_culture",
       type |-> "rating",
       scale |-> 5,
       required |-> TRUE],
      [id |-> "concerns",
       type |-> "multi_select",
       options |-> <<"Compensation", "Career growth", "Work-life balance", "Management", "Company direction", "Job security", "None">>,
       required |-> FALSE],
      [id |-> "suggestions",
       type |-> "text",
       required |-> FALSE],
      [id |-> "recommendation_likelihood",
       type |-> "rating",
       scale |-> 10,
       required |-> TRUE]
    >>

experiment_questions ==
    <<
      [id |-> "experiment_description",
       type |-> "text",
       required |-> TRUE],
      [id |-> "merchant_aris",
       type |-> "text",
       required |-> TRUE],
      [id |-> "ari_type",
       type |-> "multiple_choice",
       options |-> <<"Merchant ARIs", "Merchant Partner ARIs">>,
       required |-> TRUE],
      [id |-> "test_start_date",
       type |-> "text",
       required |-> TRUE],
      [id |-> "test_end_date",
       type |-> "text",
       required |-> TRUE],
      [id |-> "control_start_date",
       type |-> "text",
       required |-> TRUE],
      [id |-> "control_end_date",
       type |-> "text",
       required |-> TRUE],
      [id |-> "metrics_to_monitor",
       type |-> "multi_select",
       options |-> <<"Authed GMV", "Checkouts", "E2E Conversion", "AOV", "Application Rate", "Authentication Rate", "Approval Rate", "Take-up Rate", "Auth Rate", "Median FICO", "% Prime+ Population", "Median ITACS", "Terms distribution", "% Z-term", "All metrics from above">>,
       required |-> TRUE],
      [id |-> "monitoring_segmentation",
       type |-> "multi_select",
       options |-> <<"Overall", "NTA vs. Repeat", "FICO Bands", "AOV Bands", "ITACS Bands", "Loan Type (IB vs. 0%)">>,
       required |-> TRUE],
      [id |-> "additional_context",
       type |-> "text",
       required |-> FALSE]
    >>

QUESTION_SETS ==
    [business_analysis     |-> BUSINESS_ANALYSIS_QUESTIONS,
     investment_analysis   |-> INVESTMENT_ANALYSIS_QUESTIONS,
     project_management    |-> PROJECT_MANAGEMENT_QUESTIONS,
     customer_satisfaction |-> CUSTOMER_SATISFACTION_QUESTIONS]

\* list(QUESTION_SETS.keys()), in insertion order
get_available_question_sets ==
    <<"business_analysis", "investment_analysis", "project_management", "customer_satisfaction">>

get_question_set(set_name) == QUESTION_SETS[set_name]

Range(seq) == {seq[i] : i \in 1..Len(seq)}

\* every question of every catalog
AllQuestions ==
    Range(BUSINESS_ANALYSIS_QUESTIONS) \cup Range(INVESTMENT_ANALYSIS_QUESTIONS)
    \cup Range(PROJECT_MANAGEMENT_QUESTIONS) \cup Range(CUSTOMER_SATISFACTION_QUESTIONS)
    \cup Range(custom_questions) \cup Range(experiment_questions)

----------------------------------------------------------------------------
(* get_user_input: one pass of its prompt loop on the line that input()    *)
(* returned.  ok = TRUE is a return of val, ok = FALSE is a re-prompt.     *)

None == "None"

Return(v) == [ok |-> TRUE, val |-> v]

Retry == [ok |-> FALSE, val |-> None]

Required(question_data) ==
    IF "required" \in DOMAIN question_data THEN question_data.required ELSE FALSE

\* question_data.get("scale", 5)
Scale(question_data) ==
    IF "scale" \in DOMAIN question_data THEN question_data.scale ELSE 5

\* list indexing options[k] with Python's negative indices
Index(options, k) == IF k >= 0 THEN options[k + 1] ELSE options[Len(options) + k + 1]

\* the range check of the multiple_choice branch on the parsed choice
PickOne_from0(options, choice) ==
    IF choice.ok /\ 0 <= choice.val /\ choice.val <= Len(options)
    THEN Return(Index(options, choice.val - 1))
    ELSE Retry

PickOne(options, choice) ==
    IF choice.ok /\ 1 <= choice.val /\ choice.val <= Len(options)
    THEN Return(Index(options, choice.val - 1))
    ELSE Retry

InputMultipleChoice(options, line) == PickOne(options, ParseInt(line))

\* [int(x.strip()) for x in choices_input.split(",")]
ParseFields(fields) == [i \in 1..Len(fields) |-> ParseInt(Strip(fields[i]))]

\* the loop of the multi_select branch over the parsed choice numbers
PickMany_skipbad(options, required, choice_numbers) ==
    IF \E i \in 1..Len(choice_numbers) : ~choice_numbers[i].ok THEN Retry
    ELSE Return(SelectSeq([i \in 1..Len(choice_numbers) |->
                              IF 1 <= choice_numbers[i].val /\ choice_numbers[i].val <= Len(options)
                              THEN Index(options, choice_numbers[i].val - 1) ELSE ""],
                          LAMBDA o : o # ""))

PickMany(options, required, choice_numbers) ==
    IF \E i \in 1..Len(choice_numbers) : ~choice_numbers[i].ok THEN Retry
    ELSE IF \E i \in 1..Len(choice_numbers) :
                ~(1 <= choice_numbers[i].val /\ choice_numbers[i].val <= Len(options))
    THEN Retry
    ELSE LET selected_options ==
                 [i \in 1..Len(choice_numbers) |-> Index(options, choice_numbers[i].val - 1)]
         IN  IF selected_options # <<>> \/ ~required
             THEN Return(selected_options)
             ELSE Retry

\* the multi_select branch on the stripped line
SelectFrom(options, required, choices_input) ==
    IF choices_input = <<>> /\ ~required THEN Return(<<>>)
    ELSE PickMany(options, required, ParseFields(Split(choices_input, ",")))

InputMultiSelect(options, required, line) == SelectFrom(options, required, Strip(line))

\* the text branch on the stripped line
TextOf(required, response) ==
    IF response # <<>> \/ ~required THEN Return(response) ELSE Retry

InputText(required, line) == TextOf(required, Strip(line))

\* the numeric branch on the stripped line; float(response) on the lines of
\* the model: whitespace, a sign, digits
NumberOf(required, response, number) ==
    IF response = <<>> /\ ~required THEN Return(None)
    ELSE IF number.ok THEN Return(number.val)
    ELSE Retry

InputNumeric(required, line) == NumberOf(required, Strip(line), ParseInt(line))

\* the range check of the rating branch on the parsed rating
PickRating_from0(scale, rating) ==
    IF rating.ok /\ 0 <= rating.val /\ rating.val <= scale
    THEN Return(rating.val)
    ELSE Retry

PickRating(scale, rating) ==
    IF rating.ok /\ 1 <= rating.val /\ rating.val <= scale
    THEN Return(rating.val)
    ELSE Retry

InputRating(scale, line) == PickRating(scale, ParseInt(line))

SupportedTypes == {"multiple_choice", "multi_select", "text", "numeric", "rating"}

get_user_input(question_data, line) ==
    CASE question_data.type = "multiple_choice" ->
            InputMultipleChoice(question_data.options, line)
      [] question_data.type = "multi_select" ->
            InputMultiSelect(question_data.options, Required(question_data), line)
      [] question_data.type = "text" ->
            InputText(Required(question_data), line)
      [] question_data.type = "numeric" ->
            InputNumeric(Required(question_data), line)
      [] question_data.type = "rating" ->
            InputRating(Scale(question_data), line)
      [] OTHER -> Return(None)

----------------------------------------------------------------------------
(* The validating collector of ExperimentMonitoringQuestionnaire.          *)

_is_date_question(question) ==
    question.id \in {"test_start_date", "test_end_date", "control_start_date", "control_end_date"}

\* the extra check of control_end_date against the stored test_start_date,
\* on the parsed dates
ControlEndCheck(test_start, control_end_dt, test_start_dt, range_validation) ==
    IF Truthy(test_start) /\ control_end_dt.ok /\ test_start_dt.ok
       /\ control_end_dt.ord >= test_start_dt.ord
    THEN Result(FALSE, range_validation.warnings,
                range_validation.errors
                \o <<"Control period end date cannot be on or after test period start date">>)
    ELSE range_validation

\* the end-date branch of _validate_date_input, given the range validation
EndDateCheck_nooverlap(resp, date_input, question, range_validation) ==
    range_validation

EndDateCheck(resp, date_input, question, range_validation) ==
    IF question.id = "control_end_date"
    THEN ControlEndCheck(Get(resp, "test_start_date"), Strptime(date_input),
                         Strptime(Get(resp, "test_start_date")), range_validation)
    ELSE range_validation

\* the start date an end date is paired with
StartDateOf(resp, question) ==
    IF question.id = "test_end_date"
    THEN Get(resp, "test_start_date")
    ELSE Get(resp, "control_start_date")

_validate_date_input(resp, date_input, question, today) ==
    IF ~_validate_date_format(date_input)
    THEN Result(FALSE, <<>>, <<"Invalid date format. Please use YYYY-MM-DD format (e.g., 2024-01-15)">>)
    ELSE IF question.id \in {"test_start_date", "control_start_date"} THEN Valid
    ELSE IF question.id \in {"test_end_date", "control_end_date"}
    THEN IF Truthy(StartDateOf(resp, question))
         THEN EndDateCheck(resp, date_input, question,
                           _validate_date_range(StartDateOf(resp, question), date_input, today))
         ELSE Valid
    ELSE Valid

\* an Optional result: some = FALSE is None
Some(r) == [some |-> TRUE, res |-> r]

NoResult == [some |-> FALSE, res |-> Valid]

\* the check of a stored control start against the test start, on the
\* parsed dates
ControlStartCheck(control_start_dt, test_start_dt) ==
    IF control_start_dt.ok /\ test_start_dt.ok /\ control_start_dt.ord >= test_start_dt.ord
    THEN Some(Result(FALSE, <<>>,
              <<"Control period start date cannot be on or after test period start date">>))
    ELSE NoResult

\* the body of _validate_timing_relationship on the four stored dates
TimingRelationship(current_question_number, test_start, test_end, control_start, control_end) ==
    IF current_question_number >= 5 /\ Truthy(test_start) /\ Truthy(test_end)
    THEN IF Truthy(control_start) /\ Truthy(control_end)
         THEN Some(_validate_experiment_timing(control_start, control_end, test_start, test_end))
         ELSE IF Truthy(control_start)
         THEN ControlStartCheck(Strptime(control_start), Strptime(test_start))
         ELSE NoResult
    ELSE NoResult

_validate_timing_relationship(resp, current_question_number) ==
    TimingRelationship(current_question_number,
                       Get(resp, "test_start_date"), Get(resp, "test_end_date"),
                       Get(resp, "control_start_date"), Get(resp, "control_end_date"))

\* the outcome of one pass of a prompt loop: the line read (if one was),
\* whether it was accepted, and for a date question its validation and
\* whether the timing check refused it
Outcome(question_number, line, read, accepted, is_date, validation, timing_blocked) ==
    [qn |-> question_number, line |-> line, read |-> read, accepted |-> accepted,
     is_date |-> is_date, validation |-> validation, timing_blocked |-> timing_blocked]

NoOutcome == Outcome(0, <<>>, FALSE, FALSE, FALSE, Valid, FALSE)

\* the date branch of _get_validated_response, given both validations
DateVerdict_warnblock(question_number, line, response, validation_result, timing_validation) ==
    [ok  |-> validation_result.is_valid /\ validation_result.warnings = <<>>
             /\ ~(timing_validation.some /\ ~timing_validation.res.is_valid),
     val |-> response.val,
     out |-> Outcome(question_number, line, TRUE,
                     validation_result.is_valid /\ validation_result.warnings = <<>>
                     /\ ~(timing_validation.some /\ ~timing_validation.res.is_valid),
                     TRUE, validation_result,
                     validation_result.is_valid
                     /\ (validation_result.warnings # <<>>
                         \/ (timing_validation.some /\ ~timing_validation.res.is_valid)))]

DateVerdict(question_number, line, response, validation_result, timing_validation) ==
    [ok  |-> validation_result.is_valid
             /\ ~(timing_validation.some /\ ~timing_validation.res.is_valid),
     val |-> response.val,
     out |-> Outcome(question_number, line, TRUE,
                     validation_result.is_valid
                     /\ ~(timing_validation.some /\ ~timing_validation.res.is_valid),
                     TRUE, validation_result,
                     validation_result.is_valid
                     /\ timing_validation.some /\ ~timing_validation.res.is_valid)]

\* one pass of the loop of _get_validated_response, given what
\* get_user_input made of the line
Validated(resp, question, question_number, line, today, response) ==
    IF ~response.ok
    THEN [ok |-> FALSE, val |-> None,
          out |-> Outcome(question_number, line, TRUE, FALSE, FALSE, Valid, FALSE)]
    ELSE IF _is_date_question(question)
    THEN DateVerdict(question_number, line, response,
                     _validate_date_input(resp, response.val, question, today),
                     _validate_timing_relationship(resp, question_number))
    ELSE [ok |-> TRUE, val |-> response.val,
          out |-> Outcome(question_number, line, question.type \in SupportedTypes,
                          TRUE, FALSE, Valid, FALSE)]

\* one pass of the loop of _get_validated_response: the answer it returns
\* (ok) or the re-prompt, with the outcome shown to the user
_get_validated_response(resp, question, question_number, line, today) ==
    Validated(resp, question, question_number, line, today, get_user_input(question, line))

----------------------------------------------------------------------------
(* What the user types and what the clock shows.                           *)

\* a number as `width` digits, zero padded
RECURSIVE Digits(_, _)
Digits(n, width) ==
    IF width = 0 THEN <<>>
    ELSE Digits(n \div 10, width - 1) \o <<DigitChars[(n % 10) + 1]>>

\* the line YYYY-MM-DD of a year, a month and a day number
DateLine(t) == Digits(t[1], 4) \o <<"-">> \o Digits(t[2], 2) \o <<"-">> \o Digits(t[3], 2)

\* the lines typed at the date prompts of a run
RunDates ==
    {<<2019, 1, 1>>, <<2024, 1, 1>>, <<2024, 1, 2>>, <<2024, 1, 3>>, <<2024, 2, 1>>,
     <<2024, 4, 1>>, <<2024, 2, 30>>}

DateTyped == {DateLine(t) : t \in RunDates} \cup {<<"x">>, <<>>}

\* the lines typed at the choice, multi-select and rating prompts of a run
ChoiceTyped == {<<"1">>, <<"2">>, <<"0">>, <<"x">>, <<>>, <<"1", ",", "2">>}

\* the lines typed when a question set is selected
SelectTyped == {<<"1">>, <<"2">>, <<"3">>, <<"4">>, <<"0">>, <<"5">>, <<"x">>}

\* the lines typed at the other text prompts of a run
TextTyped == {<<>>, <<" ">>, <<"a">>, <<"a", ",", "b">>}

Typed(question) ==
    IF question.type = "text"
    THEN (IF _is_date_question(question) THEN DateTyped ELSE TextTyped)
    ELSE ChoiceTyped

\* every line of at most n characters
Lines(n) == UNION {[1..k -> Chars] : k \in 0..n}

\* datetime.now(): a day, and whether midnight has passed (tod > 0)
Clock(y, m, d, tod) == [y |-> y, m |-> m, d |-> d, tod |-> tod]

Nows == {Clock(2024, 3, 8, 1), Clock(2024, 3, 8, 0), Clock(2024, 2, 29, 1)}

----------------------------------------------------------------------------
(* A run of run_full_analysis, up to the end of conduct_questionnaire.     *)

Classes ==
    {"EnhancedAnalysisQuestionnaire", "EmployeeSatisfactionQuestionnaire",
     "ExperimentMonitoringQuestionnaire"}

\* dict item assignment
Put(resp, key, val) ==
    [k \in DOMAIN resp \cup {key} |-> IF k = key THEN val ELSE resp[k]]

EmptyDict == [k \in {} |-> None]

NoCall == [fn |-> "none", args |-> <<>>, today |-> Clock(2024, 3, 8, 1), result |-> Valid]

\* the instance after __init__, run_full_analysis about to start
Init ==
    /\ cls \in Classes
    /\ pc = IF cls = "ExperimentMonitoringQuestionnaire" THEN "conduct" ELSE "select"
    /\ selected_question_set =
         CASE cls = "ExperimentMonitoringQuestionnaire" -> "experiment_monitoring"
           [] cls = "EmployeeSatisfactionQuestionnaire" -> "employee_satisfaction"
           [] OTHER -> None
    /\ questions =
         CASE cls = "ExperimentMonitoringQuestionnaire" -> experiment_questions
           [] cls = "EmployeeSatisfactionQuestionnaire" -> custom_questions
           [] OTHER -> <<>>
    /\ qi = 1
    /\ responses = EmptyDict
    /\ now \in (IF cls = "ExperimentMonitoringQuestionnaire" THEN Nows ELSE {Clock(2024, 3, 8, 1)})
    /\ last = NoOutcome
    /\ call = NoCall
    /\ analysis_results = EmptyDict
    /\ out = <<>>

\* select_question_set on the parsed choice
Select(choice_num, available_sets) ==
    IF choice_num.ok /\ 1 <= choice_num.val /\ choice_num.val <= Len(available_sets)
    THEN /\ selected_question_set' = available_sets[choice_num.val]
         /\ questions' = get_question_set(available_sets[choice_num.val])
         /\ pc' = "conduct"
    ELSE UNCHANGED <<selected_question_set, questions, pc>>

\* one pass of the prompt loop of select_question_set
select_question_set ==
    /\ pc = "select"
    /\ \E line \in SelectTyped : Select(ParseInt(line), get_available_question_sets)
    /\ UNCHANGED <<cls, qi, responses, now, last, call, analysis_results, out>>

\* the loop of conduct_questionnaire: an accepted answer is stored under the
\* id of its question and the loop moves on; a refused one asks again
Store_moveon(question, response) ==
    /\ responses' = IF response.ok THEN Put(responses, question.id, response.val) ELSE responses
    /\ qi' = qi + 1
    /\ pc' = IF qi + 1 > Len(questions) THEN "completed" ELSE "conduct"

\* stores the answer of a prompt whether it was accepted or not
Store_anyway(question, response) ==
    /\ responses' = Put(responses, question.id, response.val)
    /\ IF response.ok
       THEN /\ qi' = qi + 1
            /\ pc' = IF qi + 1 > Len(questions) THEN "completed" ELSE "conduct"
       ELSE UNCHANGED <<qi, pc>>

Store(question, response) ==
    IF response.ok
    THEN /\ responses' = Put(responses, question.id, response.val)
         /\ qi' = qi + 1
         /\ pc' = IF qi + 1 > Len(questions) THEN "completed" ELSE "conduct"
    ELSE UNCHANGED <<responses, qi, pc>>

\* what the enhanced collector shows of a pass of get_user_input
Asked(question, line, response) ==
    /\ last' = Outcome(qi, line, question.type \in SupportedTypes, response.ok, FALSE, Valid, FALSE)
    /\ Store(question, response)

\* EnhancedAnalysisQuestionnaire.conduct_questionnaire: one pass of the
\* prompt loop of get_user_input for the question at hand
conduct_questionnaire ==
    /\ pc = "conduct"
    /\ cls # "ExperimentMonitoringQuestionnaire"
    /\ qi <= Len(questions)
    /\ \E line \in Typed(questions[qi]) :
         Asked(questions[qi], line, get_user_input(questions[qi], line))
    /\ UNCHANGED <<cls, selected_question_set, questions, now, call, analysis_results, out>>

\* what the validating collector shows of a pass of _get_validated_response
AskedValidated(question, response) ==
    /\ last' = response.out
    /\ Store(question, response)

\* ExperimentMonitoringQuestionnaire.conduct_questionnaire: one pass of the
\* loop of _get_validated_response for the question at hand
conduct_questionnaire_validated ==
    /\ pc = "conduct"
    /\ cls = "ExperimentMonitoringQuestionnaire"
    /\ qi <= Len(questions)
    /\ \E line \in Typed(questions[qi]) :
         AskedValidated(questions[qi],
                        _get_validated_response(responses, questions[qi], qi, line, now))
    /\ UNCHANGED <<cls, selected_question_set, questions, now, call, analysis_results, out>>

Next ==
    \/ select_question_set
    \/ conduct_questionnaire
    \/ conduct_questionnaire_validated

Spec == Init /\ [][Next]_vars

----------------------------------------------------------------------------
(* get_user_input taken alone: a question of the catalog and every line of *)
(* at most MaxLineLen characters.                                          *)

InitInput ==
    /\ cls = "EnhancedAnalysisQuestionnaire"
    /\ pc = "input"
    /\ selected_question_set = None
    /\ questions \in {<<q>> : q \in AllQuestions}
    /\ qi = 1
    /\ responses = EmptyDict
    /\ now = Clock(2024, 3, 8, 1)
    /\ last = NoOutcome
    /\ call = NoCall
    /\ analysis_results = EmptyDict
    /\ out = <<>>

\* what one pass of get_user_input made of the line: the value it returned
\* is kept under the id of the question
Prompted(question, line, response) ==
    /\ last' = Outcome(1, line, question.type \in SupportedTypes, response.ok, FALSE, Valid, FALSE)
    /\ responses' = IF response.ok THEN Put(EmptyDict, question.id, response.val) ELSE EmptyDict

Prompt ==
    /\ pc = "input"
    /\ \E line \in Lines(MaxLineLen) :
         Prompted(questions[1], line, get_user_input(questions[1], line))
    /\ pc' = "prompted"
    /\ UNCHANGED <<cls, selected_question_set, questions, qi, now, call, analysis_results, out>>

NextInput == Prompt

SpecInput == InitInput /\ [][NextInput]_vars

----------------------------------------------------------------------------
(* The validators taken alone: _validate_date_range and                    *)
(* _validate_experiment_timing on date lines and on lines that are no      *)
(* dates.                                                                  *)

GridYears == {2019, 2024}

\* days of the month of the date lines, some of them missing in February
GridDays == {1, 2, 8, 9, 30, 31}

GridDates == {<<y, m, d>> : y \in GridYears, m \in 1..MaxMonth, d \in GridDays}

Garbage == {<<"x">>, <<"2", "0", "2", "4", "-", "0", "1">>}

GridLines == {DateLine(t) : t \in GridDates} \cup Garbage

\* the arguments of _validate_experiment_timing that are only parsed
OuterLines == {DateLine(<<2024, 1, 1>>), <<"x">>}

Called(fn, args, today, result) == [fn |-> fn, args |-> args, today |-> today, result |-> result]

InitValidate ==
    /\ cls = "ExperimentMonitoringQuestionnaire"
    /\ pc = "validate"
    /\ selected_question_set = "experiment_monitoring"
    /\ questions = experiment_questions
    /\ qi = 1
    /\ responses = EmptyDict
    /\ now \in Nows
    /\ last = NoOutcome
    /\ call = NoCall
    /\ analysis_results = EmptyDict
    /\ out = <<>>

CallDateRange ==
    /\ pc = "validate"
    /\ \E start_date \in GridLines, end_date \in GridLines :
         call' = Called("_validate_date_range", <<start_date, end_date>>, now,
                        _validate_date_range(start_date, end_date, now))
    /\ pc' = "validated"
    /\ UNCHANGED <<cls, selected_question_set, questions, qi, responses, now, last, analysis_results, out>>

CallExperimentTiming ==
    /\ pc = "validate"
    /\ \E control_start \in OuterLines, control_end \in GridLines,
          test_start \in GridLines, test_end \in OuterLines :
         call' = Called("_validate_experiment_timing",
                        <<control_start, control_end, test_start, test_end>>, now,
                        _validate_experiment_timing(control_start, control_end, test_start, test_end))
    /\ pc' = "validated"
    /\ UNCHANGED <<cls, selected_question_set, questions, qi, responses, now, last, analysis_results, out>>

NextValidate ==
    \/ CallDateRange
    \/ CallExperimentTiming

SpecValidate == InitValidate /\ [][NextValidate]_vars

----------------------------------------------------------------------------
(* The identifier (ARI) list: _compile_all_aris for the analysis, and the  *)
(* list generate_populated_sql puts into the query.  A generated text is   *)
(* the sequence of its pieces in order: a fixed fragment of the source is  *)
(* one string, an inserted text contributes its characters.                *)

\* a longest ARI answer
MaxAriLen == 4

\* c in text
Contains(text, c) == \E i \in 1..Len(text) : text[i] = c

\* [f(x) for x in fields] with f = str.strip
StripAll(fields) == [i \in 1..Len(fields) |-> Strip(fields[i])]

NotEmpty(text) == text # <<>>

StripsNotEmpty(text) == Strip(text) # <<>>

\* the first whitespace-delimited word of a text that does not start with
\* whitespace
RECURSIVE FirstWord(_)
FirstWord(s) ==
    IF s = <<>> \/ IsSpace(s[1]) THEN <<>> ELSE <<s[1]>> \o FirstWord(Tail(s))

\* str.split(): the words between runs of whitespace
RECURSIVE SplitWhitespace(_)
SplitWhitespace(s) ==
    IF s = <<>> THEN <<>>
    ELSE IF IsSpace(s[1]) THEN SplitWhitespace(Tail(s))
    ELSE <<FirstWord(s)>> \o SplitWhitespace(SubSeq(s, Len(FirstWord(s)) + 1, Len(s)))

\* [ari.strip() for ari in fields if ari.strip()], then the final filter
AriItems(fields) == SelectSeq(StripAll(SelectSeq(fields, StripsNotEmpty)), NotEmpty)

_compile_all_aris(ari_text) ==
    IF ~Truthy(ari_text) THEN <<>>
    ELSE IF Contains(ari_text, ",") THEN AriItems(Split(ari_text, ","))
    ELSE IF Contains(ari_text, "\n") THEN AriItems(Split(ari_text, "\n"))
    ELSE IF Contains(ari_text, ";") THEN AriItems(Split(ari_text, ";"))
    ELSE AriItems(SplitWhitespace(ari_text))

\* sep.join(items)
RECURSIVE Join(_, _)
Join(items, sep) ==
    IF items = <<>> THEN <<>>
    ELSE IF Len(items) = 1 THEN items[1]
    ELSE items[1] \o sep \o Join(Tail(items), sep)

\* the ari_list of generate_populated_sql
SqlAriList(merchant_aris) ==
    IF Truthy(merchant_aris) THEN StripAll(Split(merchant_aris, ",")) ELSE <<>>

\* the ari_list_str of generate_populated_sql
SqlAriListStr(merchant_aris) == Join(SqlAriList(merchant_aris), <<"', '">>)

\* the characters of an ARI answer
AriChars == {"a", "b", ",", " ", ";", "\n"}

AriTexts == UNION {[1..k -> AriChars] : k \in 0..MaxAriLen}

\* the record of a call of a function: its arguments and what it returned
Returned(fn, args, result) == [fn |-> fn, args |-> args, result |-> result]

InitAris ==
    /\ cls = "ExperimentMonitoringQuestionnaire"
    /\ pc = "aris"
    /\ selected_question_set = "experiment_monitoring"
    /\ questions = experiment_questions
    /\ qi = 1
    /\ responses = EmptyDict
    /\ now = Clock(2024, 3, 8, 1)
    /\ last = NoOutcome
    /\ call = NoCall
    /\ analysis_results = EmptyDict
    /\ out = <<>>

CallCompileAllAris ==
    /\ pc = "aris"
    /\ \E ari_text \in AriTexts :
         call' = Returned("_compile_all_aris", <<ari_text>>, _compile_all_aris(ari_text))
    /\ pc' = "returned"
    /\ UNCHANGED <<cls, selected_question_set, questions, qi, responses, now, last, analysis_results, out>>

\* generate_populated_sql up to its ari_list
CallSqlAriList ==
    /\ pc = "aris"
    /\ \E merchant_aris \in AriTexts \ {<<>>} :
         /\ responses' = Put(EmptyDict, "merchant_aris", merchant_aris)
         /\ call' = Returned("generate_populated_sql", <<merchant_aris>>,
                             SqlAriList(merchant_aris))
    /\ pc' = "returned"
    /\ UNCHANGED <<cls, selected_question_set, questions, qi, now, last, analysis_results, out>>

NextAris ==
    \/ CallCompileAllAris
    \/ CallSqlAriList

SpecAris == InitAris /\ [][NextAris]_vars

----------------------------------------------------------------------------
(* The SQL generators: generate_populated_sql of                           *)
(* experiment_monitoring_questionnaire.py builds the query from an         *)
(* f-string, generate_populated_sql of                                     *)
(* updated_experiment_monitoring_questionnaire.py fills the placeholders   *)
(* of the template file query.sql.  A placeholder, like a fixed fragment,  *)
(* is one string of the text, in the template and in an answer that        *)
(* spells it.                                                              *)

\* the characters of an option, as a user types them
Spell(option) ==
    CASE option = "Merchant ARIs" -> <<"M", "e", "r", "c", "h", "a", "n", "t", " ", "A", "R", "I", "s">>
      [] option = "Merchant Partner ARIs" -> <<"M", "e", "r", "c", "h", "a", "n", "t", " ", "P", "a", "r", "t", "n", "e", "r", " ", "A", "R", "I", "s">>

\* f"'{text}'"
Quoted(text) == <<"'">> \o text \o <<"'">>

\* dict.get(key, default)
GetOr(resp, key, default) == IF key \in DOMAIN resp THEN resp[key] ELSE default

\* the where_clause of the f-string generator
FWhereClause(ari_type, ari_list_str) ==
    IF ari_type = "Merchant ARIs"
    THEN <<"md.merchant_ari IN ('">> \o ari_list_str \o <<"')">>
    ELSE IF ari_type = "Merchant Partner ARIs"
    THEN <<"md.merchant_partner_ari IN ('">> \o ari_list_str \o <<"')">>
    ELSE <<"md.merchant_ari IN ('">> \o ari_list_str
         \o <<"') OR md.merchant_partner_ari IN ('">> \o ari_list_str \o <<"')">>

\* the sql_query f-string: its fixed text in fragments, with the values it
\* inserts
FQuery(experiment_description, control_start_date, control_end_date, test_start_date, test_end_date, where_clause) ==
    <<"SELECT -- Experiment: ">> \o experiment_description
    \o <<"-- Control Period: ">> \o control_start_date \o <<" to ">> \o control_end_date
    \o <<"-- Test Period: ">> \o test_start_date \o <<" to ">> \o test_end_date
    \o <<"BETWEEN '">> \o control_start_date \o <<"' AND '">> \o control_end_date
    \o <<"' THEN 'Pre'", "BETWEEN '">> \o test_start_date \o <<"' AND '">> \o test_end_date
    \o <<"' THEN 'Post'", "WHERE ">> \o where_clause \o <<"group by all">>

\* generate_populated_sql of experiment_monitoring_questionnaire.py;
\* ok = FALSE stands for the ValueError raised on an empty response map
generate_populated_sql(resp) ==
    IF DOMAIN resp = {} THEN [ok |-> FALSE, val |-> <<>>]
    ELSE [ok |-> TRUE,
          val |-> FQuery(GetOr(resp, "experiment_description", <<"N/A">>),
                         Get(resp, "control_start_date"), Get(resp, "control_end_date"),
                         Get(resp, "test_start_date"), Get(resp, "test_end_date"),
                         FWhereClause(GetOr(resp, "ari_type", ""),
                                      SqlAriListStr(Get(resp, "merchant_aris"))))]

\* the pieces parts[lo..hi] put end to end
RECURSIVE Flatten(_, _, _)
Flatten(parts, lo, hi) ==
    IF lo > hi THEN <<>>
    ELSE IF lo = hi THEN parts[lo]
    ELSE Flatten(parts, lo, (lo + hi) \div 2) \o Flatten(parts, (lo + hi) \div 2 + 1, hi)

\* str.replace(old, new) for a placeholder old
Replace(text, old, new) ==
    Flatten([i \in 1..Len(text) |-> IF text[i] = old THEN new ELSE <<text[i]>>],
            1, Len(text))

\* the formatted_aris of the template generator
FormattedAris(merchant_aris) ==
    IF merchant_aris # <<"{merchant_ari_list}">>
    THEN <<"'">> \o Join(_compile_all_aris(merchant_aris), <<"', '">>) \o <<"'">>
    ELSE merchant_aris

\* the where_clause of the template generator
TWhereClause(ari_type, formatted_aris) ==
    IF ari_type = Spell("Merchant Partner ARIs")
    THEN <<"WHERE md.merchant_partner_ari IN (">> \o formatted_aris \o <<")">>
    ELSE <<"WHERE md.merchant_ari IN (">> \o formatted_aris \o <<")">>

\* the four date replacements, in the order of the source
ReplaceDates(sql_template, pre_start, pre_end, post_start, post_end) ==
    Replace(Replace(Replace(Replace(sql_template,
        "{pre_start_date}", Quoted(pre_start)),
        "{pre_end_date}", Quoted(pre_end)),
        "{post_start_date}", Quoted(post_start)),
        "{post_end_date}", Quoted(post_end))

\* where_pattern: the WHERE clause on both columns; "\\s+" is a run of
\* whitespace
where_pattern ==
    <<"WHERE", "\\s+", "md.merchant_ari", "\\s+", "IN", "\\s+",
      "(", "{merchant_ari_list}", ")", "\\s+", "OR", "\\s+",
      "md.merchant_partner_ari", "\\s+", "IN", "\\s+",
      "(", "{merchant_ari_list}", ")">>

\* where a match of pattern[k..] that starts at text[i] ends (the position
\* after it), 0 when there is none
RECURSIVE MatchEnd(_, _, _, _)
MatchEnd(text, i, pattern, k) ==
    IF k > Len(pattern) THEN i
    ELSE IF i > Len(text) THEN 0
    ELSE IF pattern[k] = "\\s+"
         THEN IF ~IsSpace(text[i]) THEN 0
              ELSE IF i + 1 <= Len(text) /\ IsSpace(text[i + 1])
                   THEN MatchEnd(text, i + 1, pattern, k)
                   ELSE MatchEnd(text, i + 1, pattern, k + 1)
    ELSE IF text[i] = pattern[k] THEN MatchEnd(text, i + 1, pattern, k + 1)
    ELSE 0

\* re.search(pattern, text)
ReSearch(pattern, text) == \E i \in 1..Len(text) : MatchEnd(text, i, pattern, 1) > 0

\* re.sub(pattern, repl, text) for a pattern whose first word occurs in it
\* once, so that no two matches overlap: a match gives way to repl, the
\* rest of the text stays; the texts of the model hold no backslash, so
\* repl is taken literally
ReSub(pattern, repl, text) ==
    Flatten([i \in 1..Len(text) |->
                IF MatchEnd(text, i, pattern, 1) > 0 THEN repl
                ELSE IF \E j \in 1..(i - 1) : MatchEnd(text, j, pattern, 1) > i THEN <<>>
                ELSE <<text[i]>>],
            1, Len(text))

\* the WHERE clause replaced as a whole, or else the list placeholder alone
ReplaceWhere(populated_sql, where_clause, formatted_aris) ==
    IF ReSearch(where_pattern, populated_sql)
    THEN ReSub(where_pattern, where_clause, populated_sql)
    ELSE Replace(populated_sql, "{merchant_ari_list}", formatted_aris)

\* generate_populated_sql of updated_experiment_monitoring_questionnaire.py
\* on the text of query.sql; readable = FALSE stands for the failure of
\* open(), which is returned as a text
generate_populated_sql_template(resp, readable, sql_template) ==
    IF ~readable THEN <<"Error generating SQL: ">>
    ELSE ReplaceWhere(
             ReplaceDates(sql_template,
                          GetOr(resp, "pre_start_date", <<"{pre_start_date}">>),
                          GetOr(resp, "pre_end_date", <<"{pre_end_date}">>),
                          GetOr(resp, "post_start_date", <<"{post_start_date}">>),
                          GetOr(resp, "post_end_date", <<"{post_end_date}">>)),
             TWhereClause(GetOr(resp, "ari_type", Spell("Merchant ARIs")),
                          FormattedAris(GetOr(resp, "merchant_aris", <<"{merchant_ari_list}">>))),
             FormattedAris(GetOr(resp, "merchant_aris", <<"{merchant_ari_list}">>)))

\* the questions of updated_experiment_monitoring_questionnaire.py, with
\* the metrics extract_metrics_from_sql gives when query.sql is not found
sql_experiment_questions ==
    <<
      [id |-> "experiment_description", type |-> "text", required |-> TRUE],
      [id |-> "merchant_aris", type |-> "text", required |-> TRUE],
      [id |-> "ari_type",
       type |-> "multiple_choice",
       options |-> <<"Merchant ARIs", "Merchant Partner ARIs">>,
       required |-> TRUE],
      [id |-> "pre_start_date", type |-> "text", required |-> TRUE],
      [id |-> "pre_end_date", type |-> "text", required |-> TRUE],
      [id |-> "post_start_date", type |-> "text", required |-> TRUE],
      [id |-> "post_end_date", type |-> "text", required |-> TRUE],
      [id |-> "metrics_to_monitor",
       type |-> "multi_select",
       options |-> <<"Checkouts", "Authentication Rate", "E2E Conversion", "AOV">>,
       required |-> TRUE],
      [id |-> "custom_metrics", type |-> "text", required |-> FALSE],
      [id |-> "experiment_goals",
       type |-> "multi_select",
       options |-> <<"Increase conversion rates", "Improve user engagement", "Reduce customer acquisition costs", "Increase average order value", "Improve customer satisfaction", "Test new features or designs", "Optimize pricing strategy", "Improve checkout process", "Test APR/pricing changes", "Improve credit approval rates", "Increase loan take-up", "Optimize risk assessment", "Other (specify below)">>,
       required |-> FALSE],
      [id |-> "custom_goals", type |-> "text", required |-> FALSE],
      [id |-> "success_criteria", type |-> "text", required |-> FALSE]
    >>

\* the class of updated_experiment_monitoring_questionnaire.py
SqlClass == "updated.ExperimentMonitoringQuestionnaire"

\* response maps of completed runs of the validating collector
ExperimentSqlResponses ==
    {[experiment_description |-> <<"x">>,
      merchant_aris |-> aris,
      ari_type |-> ari_type,
      test_start_date |-> DateLine(<<2024, 2, 1>>),
      test_end_date |-> DateLine(<<2024, 4, 1>>),
      control_start_date |-> DateLine(<<2024, 1, 1>>),
      control_end_date |-> control_end,
      metrics_to_monitor |-> <<"Checkouts">>,
      monitoring_segmentation |-> <<"Overall">>,
      additional_context |-> context] :
        aris \in {<<"a">>, <<"a", ",", "b">>, <<"a", " ", "b">>},
        ari_type \in {"Merchant ARIs", "Merchant Partner ARIs"},
        control_end \in {DateLine(<<2024, 1, 2>>), DateLine(<<2024, 1, 3>>)},
        context \in {<<>>, <<"x">>}}

\* response maps run_interactive_questionnaire hands over: every answer is
\* the stripped line typed, not empty for a required question
InteractiveSqlResponses ==
    {[experiment_description |-> <<"x">>,
      merchant_aris |-> aris,
      ari_type |-> ari_type,
      pre_start_date |-> pre_start,
      pre_end_date |-> pre_end,
      post_start_date |-> DateLine(<<2024, 2, 1>>),
      post_end_date |-> post_end,
      metrics_to_monitor |-> <<"1">>,
      custom_metrics |-> <<>>,
      experiment_goals |-> <<>>,
      custom_goals |-> <<>>,
      success_criteria |-> <<>>] :
        aris \in {<<"a", ",", "b">>, <<"a", ";", "b">>},
        ari_type \in {Spell("Merchant ARIs"), Spell("Merchant Partner ARIs"), <<"1">>, <<"2">>},
        pre_start \in {DateLine(<<2024, 1, 1>>), <<"{pre_end_date}">>, <<"x">>},
        pre_end \in {DateLine(<<2024, 1, 3>>), <<"{pre_start_date}">>},
        post_end \in {DateLine(<<2024, 4, 1>>), <<"{merchant_ari_list}">>}}

\* the part of a template that holds the date placeholders
DateParts ==
    {<<"{pre_start_date}", " ", "{pre_end_date}", " ",
       "{post_start_date}", " ", "{post_end_date}", "\n">>,
     <<"{post_end_date}", " ", "{post_start_date}", " ",
       "{pre_end_date}", " ", "{pre_start_date}", "\n">>,
     <<"{pre_start_date}", " ", "{pre_start_date}", " ", "{pre_end_date}", " ",
       "{post_start_date}", " ", "{post_end_date}", "\n">>}

\* a WHERE clause on both columns, with the whitespace ws between its words
WhereBoth(ws) ==
    <<"WHERE">> \o ws \o <<"md.merchant_ari">> \o ws \o <<"IN">> \o ws
    \o <<"(", "{merchant_ari_list}", ")">> \o ws \o <<"OR">> \o ws
    \o <<"md.merchant_partner_ari">> \o ws \o <<"IN">> \o ws
    \o <<"(", "{merchant_ari_list}", ")">>

\* the part of a template that filters on the ARIs
WhereParts ==
    {WhereBoth(<<" ">>), WhereBoth(<<"\n", " ">>),
     <<"WHERE", " ", "md.merchant_ari", " ", "IN", " ", "(", "{merchant_ari_list}", ")">>}

\* texts of query.sql
Templates == {d \o w : d \in DateParts, w \in WhereParts}

InitSql ==
    /\ cls \in {"ExperimentMonitoringQuestionnaire", SqlClass}
    /\ pc = "sql"
    /\ selected_question_set =
         IF cls = SqlClass THEN "sql_experiment_monitoring" ELSE "experiment_monitoring"
    /\ questions = IF cls = SqlClass THEN sql_experiment_questions ELSE experiment_questions
    /\ qi = Len(questions) + 1
    /\ responses \in (IF cls = SqlClass THEN InteractiveSqlResponses ELSE ExperimentSqlResponses)
    /\ now = Clock(2024, 3, 8, 1)
    /\ last = NoOutcome
    /\ call = NoCall
    /\ analysis_results = EmptyDict
    /\ out = <<>>

\* generate_populated_sql of the validating collector
CallGenerateSql ==
    /\ pc = "sql"
    /\ cls = "ExperimentMonitoringQuestionnaire"
    /\ call' = Returned("generate_populated_sql", <<>>, generate_populated_sql(responses).val)
    /\ pc' = "returned"
    /\ UNCHANGED <<cls, selected_question_set, questions, qi, responses, now, last, analysis_results, out>>

\* generate_populated_sql of the template collector, query.sql being what
\* it is at that time
CallGenerateSqlTemplate ==
    /\ pc = "sql"
    /\ cls = SqlClass
    /\ \E readable \in BOOLEAN, sql_template \in Templates :
         call' = Returned("generate_populated_sql", <<readable, sql_template>>,
                          generate_populated_sql_template(responses, readable, sql_template))
    /\ pc' = "returned"
    /\ UNCHANGED <<cls, selected_question_set, questions, qi, responses, now, last, analysis_results, out>>

NextSql ==
    \/ CallGenerateSql
    \/ CallGenerateSqlTemplate

SpecSql == InitSql /\ [][NextSql]_vars

----------------------------------------------------------------------------
(* The interpreters of single answers: the satisfaction scores of          *)
(* custom_questionnaire_example.py and the multi-select interpreters of    *)
(* enhanced_questionnaire.py and custom_questionnaire_example.py.          *)

\* the largest scale of a rating question
MaxScale == 10

\* the most items of a list-valued answer
MaxSelected == 2

\* (score / max_score) * 100 >= threshold; the float quotient falls on
\* the same side of 80, 60, 40 and 20 as the exact one for these scales
PercentageAtLeast(score, max_score, threshold) == 100 * score >= threshold * max_score

_interpret_satisfaction_score_above(score, max_score) ==
    IF 100 * score > 80 * max_score THEN "Excellent - High satisfaction level"
    ELSE IF 100 * score > 60 * max_score
    THEN "Good - Satisfactory level with room for improvement"
    ELSE IF 100 * score > 40 * max_score THEN "Fair - Some concerns that need attention"
    ELSE IF 100 * score > 20 * max_score
    THEN "Poor - Significant issues requiring immediate attention"
    ELSE "Very Poor - Critical issues requiring urgent action"

_interpret_satisfaction_score(score, max_score) ==
    IF PercentageAtLeast(score, max_score, 80) THEN "Excellent - High satisfaction level"
    ELSE IF PercentageAtLeast(score, max_score, 60)
    THEN "Good - Satisfactory level with room for improvement"
    ELSE IF PercentageAtLeast(score, max_score, 40)
    THEN "Fair - Some concerns that need attention"
    ELSE IF PercentageAtLeast(score, max_score, 20)
    THEN "Poor - Significant issues requiring immediate attention"
    ELSE "Very Poor - Critical issues requiring urgent action"

_get_satisfaction_recommendations(score, max_score) ==
    IF PercentageAtLeast(score, max_score, 80)
    THEN <<"Maintain current practices", "Recognize and reward success",
           "Share best practices">>
    ELSE IF PercentageAtLeast(score, max_score, 60)
    THEN <<"Identify improvement areas", "Gather specific feedback",
           "Implement targeted improvements">>
    ELSE IF PercentageAtLeast(score, max_score, 40)
    THEN <<"Conduct detailed surveys", "Address major concerns",
           "Develop improvement plans">>
    ELSE <<"Immediate intervention required", "Conduct exit interviews",
           "Develop retention strategies">>

\* the loop "for item in items: mapping[item] = table.get(item, default)"
MapEach(items, table, default) ==
    [item \in Range(items) |-> GetOr(table, item, default)]

challenge_priority_mapping ==
    ("Market competition" :> "High") @@ ("Regulatory compliance" :> "Medium")
    @@ ("Technology disruption" :> "High") @@ ("Talent acquisition" :> "Medium")
    @@ ("Financial constraints" :> "High") @@ ("Supply chain issues" :> "Medium")
    @@ ("Customer retention" :> "High")

_prioritize_challenges(challenges) ==
    MapEach(challenges, challenge_priority_mapping, "Medium")

strategies ==
    ("Market competition" :>
        <<"Differentiate offerings", "Improve customer service", "Innovate products">>)
    @@ ("Regulatory compliance" :>
        <<"Hire compliance experts", "Implement compliance systems", "Regular audits">>)
    @@ ("Technology disruption" :>
        <<"Invest in R&D", "Partner with tech companies", "Hire tech talent">>)
    @@ ("Talent acquisition" :>
        <<"Improve employer brand", "Offer competitive compensation",
          "Develop internal talent">>)
    @@ ("Financial constraints" :>
        <<"Optimize operations", "Seek funding", "Improve cash flow">>)
    @@ ("Supply chain issues" :>
        <<"Diversify suppliers", "Build relationships", "Implement monitoring">>)
    @@ ("Customer retention" :>
        <<"Improve customer experience", "Loyalty programs", "Regular feedback">>)

_suggest_mitigation_strategies(challenges) ==
    MapEach(challenges, strategies, <<"Develop specific strategies">>)

pain_point_priority_mapping ==
    ("Product quality" :> "High") @@ ("Customer service" :> "High")
    @@ ("Pricing" :> "Medium") @@ ("Ease of use" :> "Medium")
    @@ ("Support response time" :> "High") @@ ("Documentation" :> "Low")

_prioritize_pain_points(pain_points) ==
    MapEach(pain_points, pain_point_priority_mapping, "Medium")

solutions ==
    ("Product quality" :>
        <<"Quality assurance processes", "Customer feedback loops", "Regular testing",
          "Continuous improvement">>)
    @@ ("Customer service" :>
        <<"Staff training", "Service standards", "Response time targets",
          "Customer feedback">>)
    @@ ("Pricing" :>
        <<"Competitive analysis", "Value proposition", "Pricing strategy",
          "Customer segmentation">>)
    @@ ("Ease of use" :>
        <<"User experience design", "User testing", "Interface improvements",
          "Documentation">>)
    @@ ("Support response time" :>
        <<"Support team expansion", "Automation tools", "Response time targets",
          "Escalation procedures">>)
    @@ ("Documentation" :>
        <<"Content review", "User testing", "Regular updates", "Multiple formats">>)

_suggest_pain_point_solutions(pain_points) ==
    MapEach(pain_points, solutions, <<"Develop specific solution">>)

concern_priority_mapping ==
    ("Compensation" :> "High") @@ ("Career growth" :> "High")
    @@ ("Work-life balance" :> "High") @@ ("Management" :> "High")
    @@ ("Company direction" :> "Medium") @@ ("Job security" :> "Medium")

\* keeps only the concerns of the table
_prioritize_concerns_known(concerns) ==
    [item \in Range(concerns) \cap DOMAIN concern_priority_mapping |->
        concern_priority_mapping[item]]

_prioritize_concerns(concerns) ==
    MapEach(concerns, concern_priority_mapping, "Medium")

actions ==
    ("Compensation" :>
        <<"Market benchmarking", "Compensation review", "Performance-based rewards">>)
    @@ ("Career growth" :>
        <<"Career framework", "Development programs", "Growth opportunities">>)
    @@ ("Work-life balance" :>
        <<"Flexible policies", "Workload review", "Wellness programs">>)
    @@ ("Management" :>
        <<"Management training", "Feedback systems", "Support structures">>)
    @@ ("Company direction" :>
        <<"Communication strategy", "Vision clarity", "Employee involvement">>)
    @@ ("Job security" :>
        <<"Business transparency", "Growth plans", "Employee development">>)

_suggest_actions_for_concerns(concerns) ==
    MapEach(concerns, actions, <<"Develop specific action plan">>)

\* the multi-select interpreters, by name
MultiSelectInterpreters ==
    {"_prioritize_challenges", "_suggest_mitigation_strategies",
     "_prioritize_pain_points", "_suggest_pain_point_solutions",
     "_prioritize_concerns", "_suggest_actions_for_concerns"}

Interpret(fn, items) ==
    CASE fn = "_prioritize_challenges" -> _prioritize_challenges(items)
      [] fn = "_suggest_mitigation_strategies" -> _suggest_mitigation_strategies(items)
      [] fn = "_prioritize_pain_points" -> _prioritize_pain_points(items)
      [] fn = "_suggest_pain_point_solutions" -> _suggest_pain_point_solutions(items)
      [] fn = "_prioritize_concerns" -> _prioritize_concerns(items)
      [] fn = "_suggest_actions_for_concerns" -> _suggest_actions_for_concerns(items)

\* the table an interpreter looks its items up in
TableOf(fn) ==
    CASE fn = "_prioritize_challenges" -> challenge_priority_mapping
      [] fn = "_suggest_mitigation_strategies" -> strategies
      [] fn = "_prioritize_pain_points" -> pain_point_priority_mapping
      [] fn = "_suggest_pain_point_solutions" -> solutions
      [] fn = "_prioritize_concerns" -> concern_priority_mapping
      [] fn = "_suggest_actions_for_concerns" -> actions

\* the question of a catalog with an id
QuestionById(catalog, id) == CHOOSE q \in Range(catalog) : q.id = id

\* the question whose answer an interpreter is given
QuestionOf(fn) ==
    CASE fn \in {"_prioritize_challenges", "_suggest_mitigation_strategies"} ->
           QuestionById(BUSINESS_ANALYSIS_QUESTIONS, "challenges")
      [] fn \in {"_prioritize_pain_points", "_suggest_pain_point_solutions"} ->
           QuestionById(CUSTOMER_SATISFACTION_QUESTIONS, "pain_points")
      [] fn \in {"_prioritize_concerns", "_suggest_actions_for_concerns"} ->
           QuestionById(custom_questions, "concerns")

\* the items of a list-valued answer: the options of the question, and an
\* item of no table
ItemsOf(fn) == Range(QuestionOf(fn).options) \cup {"Other"}

SelectedLists(fn) == UNION {[1..k -> ItemsOf(fn)] : k \in 0..MaxSelected}

InitInterpret ==
    /\ cls \in {"EnhancedAnalysisQuestionnaire", "EmployeeSatisfactionQuestionnaire"}
    /\ pc = "interpret"
    /\ selected_question_set = ""
    /\ questions = <<>>
    /\ qi = 1
    /\ responses = EmptyDict
    /\ now = Clock(2024, 3, 8, 1)
    /\ last = NoOutcome
    /\ call = NoCall
    /\ analysis_results = EmptyDict
    /\ out = <<>>

CallInterpretSatisfactionScore ==
    /\ pc = "interpret"
    /\ cls = "EmployeeSatisfactionQuestionnaire"
    /\ \E max_score \in 1..MaxScale : \E score \in 1..max_score :
         call' = Returned("_interpret_satisfaction_score", <<score, max_score>>,
                          _interpret_satisfaction_score(score, max_score))
    /\ pc' = "returned"
    /\ UNCHANGED <<cls, selected_question_set, questions, qi, responses, now, last,
                   analysis_results, out>>

CallGetSatisfactionRecommendations ==
    /\ pc = "interpret"
    /\ cls = "EmployeeSatisfactionQuestionnaire"
    /\ \E max_score \in 1..MaxScale : \E score \in 1..max_score :
         call' = Returned("_get_satisfaction_recommendations", <<score, max_score>>,
                          _get_satisfaction_recommendations(score, max_score))
    /\ pc' = "returned"
    /\ UNCHANGED <<cls, selected_question_set, questions, qi, responses, now, last,
                   analysis_results, out>>

\* the interpreters of concerns belong to EmployeeSatisfactionQuestionnaire,
\* which inherits the other four
CallMultiSelectInterpreter ==
    /\ pc = "interpret"
    /\ \E fn \in MultiSelectInterpreters :
         /\ fn \in {"_prioritize_concerns", "_suggest_actions_for_concerns"} =>
              cls = "EmployeeSatisfactionQuestionnaire"
         /\ \E items \in SelectedLists(fn) :
              call' = Returned(fn, <<items>>, Interpret(fn, items))
    /\ pc' = "returned"
    /\ UNCHANGED <<cls, selected_question_set, questions, qi, responses, now, last,
                   analysis_results, out>>

NextInterpret ==
    \/ CallInterpretSatisfactionScore
    \/ CallGetSatisfactionRecommendations
    \/ CallMultiSelectInterpreter

SpecInterpret == InitInterpret /\ [][NextInterpret]_vars

----------------------------------------------------------------------------
(* The aggregate verdicts: _generate_overall_assessment of                 *)
(* enhanced_questionnaire.py and _generate_experiment_assessment of        *)
(* experiment_monitoring_questionnaire.py and of                           *)
(* updated_experiment_monitoring_questionnaire.py.                         *)

\* risk_score += points when the condition holds
Points(cond, points) == IF cond THEN points ELSE 0

RiskScore(set_name, resp) ==
    CASE set_name = "business_analysis" ->
           Points(GetOr(resp, "growth_rate", None) = "Declining", 3)
           + Points(GetOr(resp, "market_position", None)
                      \in {"Niche player", "Emerging player"}, 2)
           + Points(Len(GetOr(resp, "challenges", <<>>)) > 3, 2)
      [] set_name = "investment_analysis" ->
           Points(GetOr(resp, "risk_tolerance", None) = "Aggressive", 2)
           + Points(GetOr(resp, "market_conditions", None)
                      \in {"Bear market", "Uncertain"}, 2)
           + Points(GetOr(resp, "diversification", None) = "Not diversified", 3)
      [] set_name = "project_management" ->
           Points(GetOr(resp, "timeline_pressure", None)
                      \in {"High pressure", "Critical deadline"}, 2)
           + Points(GetOr(resp, "resource_availability", None) \in {"Fair", "Poor"}, 2)
           + Points(Len(GetOr(resp, "technical_risks", <<>>)) > 2, 2)
      [] set_name = "customer_satisfaction" ->
           Points(GetOr(resp, "satisfaction_level", None)
                      \in {"Very dissatisfied", "Dissatisfied"}, 3)
           + Points(GetOr(resp, "loyalty_level", None)
                      \in {"Not loyal", "Somewhat loyal"}, 2)
           + Points(Len(GetOr(resp, "pain_points", <<>>)) > 3, 2)
      [] OTHER -> 0

RiskLevel(risk_score) ==
    IF risk_score >= 5 THEN "High" ELSE IF risk_score >= 3 THEN "Medium" ELSE "Low"

_generate_set_specific_recommendations(set_name, risk_level) ==
    CASE set_name = "business_analysis" ->
           (IF risk_level = "High"
            THEN <<"Immediate action required on key challenges",
                   "Consider strategic partnerships or acquisitions",
                   "Review and strengthen risk management processes">>
            ELSE IF risk_level = "Medium"
            THEN <<"Address priority challenges systematically",
                   "Monitor market conditions closely",
                   "Strengthen competitive positioning">>
            ELSE <<"Maintain current strategies", "Focus on growth opportunities",
                   "Continue monitoring for emerging risks">>)
      [] set_name = "investment_analysis" ->
           (IF risk_level = "High"
            THEN <<"Review risk tolerance and portfolio allocation",
                   "Consider professional financial advice",
                   "Implement risk management strategies">>
            ELSE IF risk_level = "Medium"
            THEN <<"Monitor portfolio performance regularly", "Consider rebalancing",
                   "Stay informed about market conditions">>
            ELSE <<"Maintain current investment strategy", "Continue regular monitoring",
                   "Consider new opportunities within risk parameters">>)
      [] set_name = "project_management" ->
           (IF risk_level = "High"
            THEN <<"Immediate risk mitigation planning", "Consider project scope reduction",
                   "Increase stakeholder communication">>
            ELSE IF risk_level = "Medium"
            THEN <<"Implement risk monitoring processes", "Regular status reviews",
                   "Prepare contingency plans">>
            ELSE <<"Continue current project management approach",
                   "Regular risk assessment", "Focus on optimization and efficiency">>)
      [] set_name = "customer_satisfaction" ->
           (IF risk_level = "High"
            THEN <<"Immediate customer experience improvements",
                   "Address critical pain points", "Implement customer feedback systems">>
            ELSE IF risk_level = "Medium"
            THEN <<"Systematic improvement planning",
                   "Regular customer satisfaction monitoring",
                   "Focus on high-impact improvements">>
            ELSE <<"Maintain current service standards",
                   "Continue monitoring customer feedback",
                   "Look for enhancement opportunities">>)
      [] OTHER ->
           (IF risk_level = "High"
            THEN <<"Immediate action required", "Professional consultation recommended",
                   "Risk mitigation planning">>
            ELSE IF risk_level = "Medium"
            THEN <<"Monitor situation closely", "Implement improvement plans",
                   "Regular assessment needed">>
            ELSE <<"Maintain current approach", "Continue monitoring",
                   "Look for enhancement opportunities">>)

_generate_overall_assessment(set_name, resp) ==
    [risk_level |-> RiskLevel(RiskScore(set_name, resp)),
     risk_score |-> RiskScore(set_name, resp),
     overall_health |->
        IF RiskLevel(RiskScore(set_name, resp)) = "Low" THEN "Good"
        ELSE IF RiskLevel(RiskScore(set_name, resp)) = "Medium" THEN "Fair"
        ELSE "Concerning",
     key_recommendations |->
        _generate_set_specific_recommendations(set_name,
                                               RiskLevel(RiskScore(set_name, resp)))]

\* list.remove(x): the list without the first x
Remove(list, x) ==
    IF x \notin Range(list) THEN list
    ELSE LET i == CHOOSE k \in 1..Len(list) :
                      list[k] = x /\ \A j \in 1..(k - 1) : list[j] # x
         IN  SubSeq(list, 1, i - 1) \o SubSeq(list, i + 1, Len(list))

\* for item in items: if item not in list: list.append(item)
RECURSIVE AppendNew(_, _)
AppendNew(list, items) ==
    IF items = <<>> THEN list
    ELSE AppendNew(IF Head(items) \in Range(list) THEN list ELSE Append(list, Head(items)),
                   Tail(items))

individual_metrics ==
    <<"Authed GMV", "Checkouts", "E2E Conversion", "AOV", "Application Rate",
      "Authentication Rate", "Approval Rate", "Take-up Rate", "Auth Rate", "Median FICO",
      "% Prime+ Population", "Median ITACS", "Terms distribution", "% Z-term">>

\* _compile_all_metrics of experiment_monitoring_questionnaire.py
_compile_all_metrics(selected_metrics, custom_metrics) ==
    IF "All metrics from above" \in Range(selected_metrics)
    THEN AppendNew(Remove(selected_metrics, "All metrics from above"), individual_metrics)
    ELSE selected_metrics

\* _compile_all_metrics of updated_experiment_monitoring_questionnaire.py;
\* a metric typed in custom_metrics is kept as its characters
_compile_all_metrics_sql(selected_metrics, custom_metrics) ==
    IF Truthy(custom_metrics) /\ "Other" \in Range(selected_metrics)
    THEN Remove(selected_metrics
                  \o AriItems(Split(Flatten([i \in 1..Len(custom_metrics) |->
                                               IF custom_metrics[i] = "\n" THEN <<",">>
                                               ELSE <<custom_metrics[i]>>],
                                            1, Len(custom_metrics)), ",")),
                "Other (specify below)")
    ELSE selected_metrics

CountPoints(count) == IF count > 10 THEN 2 ELSE IF count > 5 THEN 1 ELSE 0

\* the control period adds a point when it is shorter than 14 days or one of
\* its dates does not parse
ControlPoints(control_start_date, control_end_date) ==
    IF Truthy(control_start_date) /\ Truthy(control_end_date)
    THEN (IF Strptime(control_start_date).ok /\ Strptime(control_end_date).ok
          THEN Points(Strptime(control_end_date).ord - Strptime(control_start_date).ord
                        < 14, 1)
          ELSE 1)
    ELSE 0

ComplexityLevel(complexity_score) ==
    IF complexity_score >= 4 THEN "High"
    ELSE IF complexity_score >= 2 THEN "Medium"
    ELSE "Low"

MonitoringScope(ari_count, metrics_count) ==
    IF ari_count > 10 \/ metrics_count > 10 THEN "Large"
    ELSE IF ari_count > 5 \/ metrics_count > 5 THEN "Medium"
    ELSE "Small"

LevelRecommendations(complexity_level) ==
    IF complexity_level = "High"
    THEN <<"Consider using monitoring dashboards or tools",
           "Implement automated reporting systems", "Establish clear monitoring schedules",
           "Consider breaking into smaller experiments">>
    ELSE IF complexity_level = "Medium"
    THEN <<"Use organized monitoring approaches", "Establish regular review cycles",
           "Consider monitoring templates">>
    ELSE <<"Standard monitoring approach should be sufficient",
           "Focus on data quality and consistency", "Establish baseline measurements">>

ExperimentAssessment(resp, ari_count, metrics_count, complexity_score) ==
    [complexity_level |-> ComplexityLevel(complexity_score),
     complexity_score |-> complexity_score,
     monitoring_scope |-> MonitoringScope(ari_count, metrics_count),
     key_recommendations |->
        LevelRecommendations(ComplexityLevel(complexity_score))
        \o Msg(ari_count > 10, "Large number of ARIs - consider sampling or prioritization")
        \o Msg(metrics_count > 10, "Many metrics - consider grouping or prioritization")
        \o Msg(~Truthy(GetOr(resp, "additional_context", <<>>)),
               "Provide additional context for better experiment evaluation")
        \o Msg(GetOr(resp, "ari_type", "") = "Merchant Partner ARIs",
               "Partner ARIs selected - ensure proper data access and permissions"),
     experiment_readiness |->
        IF ComplexityLevel(complexity_score) # "High" THEN "Ready" ELSE "Needs Planning"]

\* _generate_experiment_assessment of experiment_monitoring_questionnaire.py
_generate_experiment_assessment(resp) ==
    ExperimentAssessment(
        resp,
        Len(_compile_all_aris(GetOr(resp, "merchant_aris", <<>>))),
        Len(_compile_all_metrics(GetOr(resp, "metrics_to_monitor", <<>>), <<>>)),
        CountPoints(Len(_compile_all_aris(GetOr(resp, "merchant_aris", <<>>))))
        + CountPoints(Len(_compile_all_metrics(GetOr(resp, "metrics_to_monitor", <<>>),
                                               <<>>)))
        + ControlPoints(GetOr(resp, "control_start_date", <<>>),
                        GetOr(resp, "control_end_date", <<>>)))

SqlAssessment(ari_count, metrics_count) ==
    [complexity_level |-> ComplexityLevel(CountPoints(ari_count) + CountPoints(metrics_count)),
     complexity_score |-> CountPoints(ari_count) + CountPoints(metrics_count),
     monitoring_scope |-> MonitoringScope(ari_count, metrics_count),
     key_recommendations |->
        <<"Metrics sourced from query.sql for consistency",
          "Consider monitoring dashboard for complex experiments",
          "Validate metric calculations before analysis">>,
     experiment_readiness |->
        IF ComplexityLevel(CountPoints(ari_count) + CountPoints(metrics_count)) # "High"
        THEN "Ready" ELSE "Needs Planning"]

\* _generate_experiment_assessment of
\* updated_experiment_monitoring_questionnaire.py
_generate_experiment_assessment_sql(resp) ==
    SqlAssessment(
        Len(_compile_all_aris(GetOr(resp, "merchant_aris", <<>>))),
        Len(_compile_all_metrics_sql(GetOr(resp, "metrics_to_monitor", <<>>),
                                     GetOr(resp, "custom_metrics", <<>>))))

\* the verdict of a class for a question set and a response map
Assess(class, set_name, resp) ==
    CASE class = "EnhancedAnalysisQuestionnaire" ->
           _generate_overall_assessment(set_name, resp)
      [] class = "ExperimentMonitoringQuestionnaire" ->
           _generate_experiment_assessment(resp)
      [] class = SqlClass -> _generate_experiment_assessment_sql(resp)

\* a list of n ARIs, separated by commas
AriText(n) == [i \in 1..(2 * n - 1) |-> IF i % 2 = 1 THEN "a" ELSE ","]

\* the numbers of ARIs of the assessed answers
AriCounts == {1, 6, 11}

\* answers to the questions the verdict of a question set reads
AssessedResponses(class, set_name) ==
    CASE class = "EnhancedAnalysisQuestionnaire" /\ set_name = "business_analysis" ->
           {[growth_rate |-> g, market_position |-> m, challenges |-> c] :
              g \in {"Declining", "Stable"}, m \in {"Niche player", "Market leader"},
              c \in {SubSeq(QuestionById(BUSINESS_ANALYSIS_QUESTIONS, "challenges").options,
                             1, n) : n \in {1, 3, 4}}}
      [] class = "EnhancedAnalysisQuestionnaire" /\ set_name = "investment_analysis" ->
           {[risk_tolerance |-> r, market_conditions |-> m, diversification |-> d] :
              r \in {"Aggressive", "Moderate"}, m \in {"Bear market", "Bull market"},
              d \in {"Not diversified", "Well diversified"}}
      [] class = "EnhancedAnalysisQuestionnaire" /\ set_name = "project_management" ->
           {[timeline_pressure |-> t, resource_availability |-> r, technical_risks |-> k] :
              t \in {"Critical deadline", "Low pressure"}, r \in {"Poor", "Good"},
              k \in {SubSeq(QuestionById(PROJECT_MANAGEMENT_QUESTIONS,
                                         "technical_risks").options, 1, n) : n \in {2, 3}}}
      [] class = "EnhancedAnalysisQuestionnaire" /\ set_name = "customer_satisfaction" ->
           {[satisfaction_level |-> s, loyalty_level |-> l, pain_points |-> p] :
              s \in {"Dissatisfied", "Satisfied"}, l \in {"Not loyal", "Very loyal"},
              p \in {SubSeq(QuestionById(CUSTOMER_SATISFACTION_QUESTIONS, "pain_points").options,
                             1, n) : n \in {3, 4}}}
      [] class = "EnhancedAnalysisQuestionnaire" /\ set_name = None ->
           {EmptyDict, [growth_rate |-> "Declining"]}
      [] class = "ExperimentMonitoringQuestionnaire" ->
           {[merchant_aris |-> AriText(n), ari_type |-> t, control_start_date |-> cs,
             control_end_date |-> DateLine(<<2024, 1, 20>>), metrics_to_monitor |-> m,
             additional_context |-> a] :
              n \in AriCounts, t \in {"Merchant ARIs", "Merchant Partner ARIs"},
              cs \in {DateLine(<<2024, 1, 1>>), DateLine(<<2024, 1, 10>>)},
              m \in {<<"Checkouts">>, SubSeq(individual_metrics, 1, 6),
                     <<"All metrics from above">>},
              a \in {<<>>, <<"x">>}}
      [] class = SqlClass ->
           {[merchant_aris |-> AriText(n), metrics_to_monitor |-> m, custom_metrics |-> c] :
              n \in AriCounts,
              m \in {<<"Checkouts">>, <<"Checkouts", "AOV", "Other">>,
                     <<"Checkouts", "Authentication Rate", "E2E Conversion", "AOV">>},
              c \in {<<>>, <<"m", ",", "n", "\n", "o">>}}

\* the question sets a class gives a verdict for
AssessedSets(class) ==
    IF class = "EnhancedAnalysisQuestionnaire"
    THEN {"business_analysis", "investment_analysis", "project_management",
          "customer_satisfaction", None}
    ELSE IF class = "ExperimentMonitoringQuestionnaire" THEN {"experiment_monitoring"}
    ELSE {"sql_experiment_monitoring"}

InitAssess ==
    /\ cls \in {"EnhancedAnalysisQuestionnaire", "ExperimentMonitoringQuestionnaire",
                SqlClass}
    /\ pc = "assess"
    /\ selected_question_set \in AssessedSets(cls)
    /\ questions = <<>>
    /\ qi = 1
    /\ responses = EmptyDict
    /\ now = Clock(2024, 3, 8, 1)
    /\ last = NoOutcome
    /\ call = NoCall
    /\ analysis_results = EmptyDict
    /\ out = <<>>

CallGenerateOverallAssessment ==
    /\ pc = "assess"
    /\ cls = "EnhancedAnalysisQuestionnaire"
    /\ \E resp \in AssessedResponses(cls, selected_question_set) :
         /\ responses' = resp
         /\ call' = Returned("_generate_overall_assessment", <<resp>>,
                             _generate_overall_assessment(selected_question_set, resp))
    /\ pc' = "returned"
    /\ UNCHANGED <<cls, selected_question_set, questions, qi, now, last, analysis_results,
                   out>>

CallGenerateExperimentAssessment ==
    /\ pc = "assess"
    /\ cls # "EnhancedAnalysisQuestionnaire"
    /\ \E resp \in AssessedResponses(cls, selected_question_set) :
         /\ responses' = resp
         /\ call' = Returned("_generate_experiment_assessment", <<resp>>,
                             Assess(cls, selected_question_set, resp))
    /\ pc' = "returned"
    /\ UNCHANGED <<cls, selected_question_set, questions, qi, now, last, analysis_results,
                   out>>

NextAssess ==
    \/ CallGenerateOverallAssessment
    \/ CallGenerateExperimentAssessment

SpecAssess == InitAssess /\ [][NextAssess]_vars

----------------------------------------------------------------------------
(* analyze_responses of EnhancedAnalysisQuestionnaire.  A section holds    *)
(* the answer it is made from under its first key; its other keys are read *)
(* from fixed tables by that answer alone, and the model keeps them only   *)
(* for the two multi-select sections whose tables are modelled above.      *)

Section(section, field, key, list) ==
    [section |-> section, field |-> field, key |-> key, list |-> list]

\* the sections of _analyze_business_responses, _analyze_investment_responses,
\* _analyze_project_responses and _analyze_customer_responses, in order
SectionsOf(set_name) ==
    CASE set_name = "business_analysis" ->
           <<Section("business_insights", "business_type", "type", FALSE),
             Section("size_analysis", "company_size", "size", FALSE),
             Section("revenue_analysis", "revenue_range", "revenue_range", FALSE),
             Section("growth_analysis", "growth_rate", "growth_rate", FALSE),
             Section("market_analysis", "market_position", "position", FALSE),
             Section("challenges_analysis", "challenges", "challenges", TRUE)>>
      [] set_name = "investment_analysis" ->
           <<Section("investment_type_analysis", "investment_type", "type", FALSE),
             Section("risk_profile", "risk_tolerance", "tolerance", FALSE),
             Section("market_analysis", "market_conditions", "conditions", FALSE),
             Section("portfolio_analysis", "diversification", "diversification", FALSE)>>
      [] set_name = "project_management" ->
           <<Section("complexity_analysis", "project_size", "size", FALSE),
             Section("risk_assessment", "technical_risks", "technical_risks", TRUE),
             Section("resource_analysis", "resource_availability", "availability", FALSE)>>
      [] set_name = "customer_satisfaction" ->
           <<Section("satisfaction_analysis", "satisfaction_level", "level", FALSE),
             Section("pain_points_analysis", "pain_points", "points", TRUE),
             Section("loyalty_analysis", "loyalty_level", "level", FALSE)>>
      [] OTHER -> <<>>

\* responses.get(field) or responses.get(field, []) is truthy
Answered(resp, s) ==
    s.field \in DOMAIN resp /\ resp[s.field] # (IF s.list THEN <<>> ELSE "")

SectionValue(resp, s) ==
    CASE s.section = "challenges_analysis" ->
           [challenges |-> resp[s.field],
            priority_levels |-> _prioritize_challenges(resp[s.field]),
            mitigation_strategies |-> _suggest_mitigation_strategies(resp[s.field])]
      [] s.section = "pain_points_analysis" ->
           [points |-> resp[s.field],
            priority |-> _prioritize_pain_points(resp[s.field]),
            solutions |-> _suggest_pain_point_solutions(resp[s.field])]
      [] OTHER -> (s.key :> resp[s.field])

\* writes the section whatever the answer
AddSection_always(results, resp, s) ==
    Put(results, s.section, (s.key :> GetOr(resp, s.field, IF s.list THEN <<>> ELSE "")))

\* "value = responses.get(field); if value: analysis_results[section] = ..."
AddSection(results, resp, s) ==
    IF Answered(resp, s) THEN Put(results, s.section, SectionValue(resp, s)) ELSE results

RECURSIVE AddSections(_, _, _, _)
AddSections(results, resp, sections, k) ==
    IF k > Len(sections) THEN results
    ELSE AddSections(AddSection(results, resp, sections[k]), resp, sections, k + 1)

\* _summarize_responses, the questions named by their ids
_summarize_responses(qs, resp) ==
    [id \in {q.id : q \in Range(qs)} \cap DOMAIN resp |->
        [response |-> resp[id], type |-> (CHOOSE q \in Range(qs) : q.id = id).type]]

_analyze_generic_responses(results, qs, resp) ==
    Put(results, "generic_analysis",
        [total_questions |-> Len(qs),
         completed_questions |-> Cardinality(DOMAIN resp),
         response_summary |-> _summarize_responses(qs, resp)])

FourSets ==
    {"business_analysis", "investment_analysis", "project_management",
     "customer_satisfaction"}

\* analyze_responses: the new analysis_results
analyze_responses(results, set_name, qs, resp) ==
    Put(IF set_name \in FourSets
        THEN AddSections(results, resp, SectionsOf(set_name), 1)
        ELSE _analyze_generic_responses(results, qs, resp),
        "overall_assessment", _generate_overall_assessment(set_name, resp))

\* the response maps analysed: a field a section is made from is absent,
\* empty or answered with the first option of its question (the first two
\* for a multi-select)
FieldValues(qs, s) ==
    IF s.list
    THEN {<<>>, SubSeq(QuestionById(qs, s.field).options, 1, 2)}
    ELSE {"", QuestionById(qs, s.field).options[1]}

RECURSIVE ResponsesOver(_, _, _)
ResponsesOver(qs, sections, k) ==
    IF k > Len(sections) THEN {EmptyDict}
    ELSE ResponsesOver(qs, sections, k + 1)
         \cup {Put(resp, sections[k].field, v) :
                 resp \in ResponsesOver(qs, sections, k + 1),
                 v \in FieldValues(qs, sections[k])}

AnalysedResponses(set_name) ==
    IF set_name \in FourSets
    THEN ResponsesOver(get_question_set(set_name), SectionsOf(set_name), 1)
    ELSE {EmptyDict, [growth_rate |-> "Declining"]}

InitAnalyze ==
    /\ cls = "EnhancedAnalysisQuestionnaire"
    /\ pc = "analyze"
    /\ selected_question_set \in FourSets \cup {None}
    /\ questions = IF selected_question_set \in FourSets
                   THEN get_question_set(selected_question_set) ELSE <<>>
    /\ qi = 1
    /\ responses \in AnalysedResponses(selected_question_set)
    /\ now = Clock(2024, 3, 8, 1)
    /\ last = NoOutcome
    /\ call = NoCall
    /\ analysis_results = EmptyDict
    /\ out = <<>>

CallAnalyzeResponses ==
    /\ pc = "analyze"
    /\ analysis_results' =
         analyze_responses(analysis_results, selected_question_set, questions, responses)
    /\ pc' = "analyzed"
    /\ UNCHANGED <<cls, selected_question_set, questions, qi, responses, now, last, call,
                   out>>

NextAnalyze == CallAnalyzeResponses

SpecAnalyze == InitAnalyze /\ [][NextAnalyze]_vars

----------------------------------------------------------------------------
(* The three interactive entry points from their first prompt to their     *)
(* return: run_full_analysis of EnhancedAnalysisQuestionnaire,             *)
(* run_full_analysis of ExperimentMonitoringQuestionnaire and              *)
(* run_interactive_questionnaire.  out lists, in order, what a run does    *)
(* once the questions are answered: the steps it calls, the files it       *)
(* writes and the messages it ends with.                                   *)

InterruptedMessage == "\n\nQuestionnaire interrupted by user."

ErrorMessage == "\nAn error occurred: "

CompleteMessage(class) ==
    IF class = "ExperimentMonitoringQuestionnaire"
    THEN "\nExperiment monitoring setup complete! Thank you for using the questionnaire tool."
    ELSE "\nAnalysis complete! Thank you for using the enhanced questionnaire tool."

\* the lines typed at the prompts of a run
RunDateTyped ==
    {DateLine(t) : t \in {<<2024, 1, 1>>, <<2024, 1, 3>>, <<2024, 2, 1>>, <<2024, 4, 1>>}}

RunTyped(question) ==
    IF question.type = "text"
    THEN (IF _is_date_question(question) THEN RunDateTyped ELSE {<<>>, <<"a">>})
    ELSE {<<"1">>, <<"x">>}

RunSelectTyped == {<<"1">>, <<"2">>, <<"3">>, <<"4">>, <<"x">>}

SaveChoiceTyped == {<<"y">>, <<"Y">>, <<"y", "e", "s">>, <<"y", " ">>, <<"n">>, <<>>}

FilenameTyped == {<<>>, <<" ">>, <<"a">>}

InteractiveTyped(question) ==
    IF question.id = "ari_type" THEN {<<>>, <<"2">>, <<"2", " ">>} ELSE {<<>>, <<"a">>}

\* str.lower() on the letters typed
Lower(line) ==
    [i \in 1..Len(line) |-> IF line[i] = "Y" THEN "y" ELSE line[i]]

\* analyze_responses of ExperimentMonitoringQuestionnaire; a section keeps
\* the answers it is made from and what the validators and the compilers
\* return for them; its other keys are read from fixed tables
analyze_experiment_responses(results, resp, today) ==
    [section \in
        DOMAIN results
        \cup {"overall_assessment"}
        \cup (IF Truthy(Get(resp, "experiment_description"))
              THEN {"experiment_analysis"} ELSE {})
        \cup (IF Truthy(Get(resp, "merchant_aris")) /\ GetOr(resp, "ari_type", "") # ""
              THEN {"merchant_ari_analysis"} ELSE {})
        \cup (IF Truthy(Get(resp, "test_start_date")) /\ Truthy(Get(resp, "test_end_date"))
              THEN {"test_timing_analysis"} ELSE {})
        \cup (IF Truthy(Get(resp, "control_start_date"))
                 /\ Truthy(Get(resp, "control_end_date"))
              THEN {"control_period_analysis"} ELSE {})
        \cup (IF Truthy(Get(resp, "metrics_to_monitor"))
              THEN {"metrics_analysis"} ELSE {})
        \cup (IF Truthy(Get(resp, "monitoring_segmentation"))
              THEN {"segmentation_analysis"} ELSE {})
        \cup (IF Truthy(Get(resp, "additional_context"))
              THEN {"additional_context_analysis"} ELSE {}) |->
        CASE section = "overall_assessment" -> _generate_experiment_assessment(resp)
          [] section = "experiment_analysis"
               /\ Truthy(Get(resp, "experiment_description")) ->
               [description |-> resp["experiment_description"],
                description_length |-> Len(resp["experiment_description"])]
          [] section = "merchant_ari_analysis"
               /\ Truthy(Get(resp, "merchant_aris")) /\ GetOr(resp, "ari_type", "") # "" ->
               [ari_list |-> resp["merchant_aris"],
                ari_type |-> resp["ari_type"],
                total_aris |-> Len(_compile_all_aris(resp["merchant_aris"]))]
          [] section = "test_timing_analysis"
               /\ Truthy(Get(resp, "test_start_date"))
               /\ Truthy(Get(resp, "test_end_date")) ->
               [test_start_date |-> resp["test_start_date"],
                test_end_date |-> resp["test_end_date"],
                date_validation |->
                   _validate_date_range(resp["test_start_date"], resp["test_end_date"],
                                        today)]
          [] section = "control_period_analysis"
               /\ Truthy(Get(resp, "control_start_date"))
               /\ Truthy(Get(resp, "control_end_date")) ->
               [control_start_date |-> resp["control_start_date"],
                control_end_date |-> resp["control_end_date"],
                timing_validation |->
                   _validate_experiment_timing(resp["control_start_date"],
                                               resp["control_end_date"],
                                               Get(resp, "test_start_date"),
                                               Get(resp, "test_end_date"))]
          [] section = "metrics_analysis" /\ Truthy(Get(resp, "metrics_to_monitor")) ->
               [selected_metrics |-> resp["metrics_to_monitor"],
                all_metrics_selected |->
                   "All metrics from above" \in Range(resp["metrics_to_monitor"]),
                compiled_metrics |-> _compile_all_metrics(resp["metrics_to_monitor"], <<>>),
                total_metrics |->
                   Len(_compile_all_metrics(resp["metrics_to_monitor"], <<>>))]
          [] section = "segmentation_analysis"
               /\ Truthy(Get(resp, "monitoring_segmentation")) ->
               [selected_segmentation |-> resp["monitoring_segmentation"],
                total_segments |-> Len(resp["monitoring_segmentation"])]
          [] section = "additional_context_analysis"
               /\ Truthy(Get(resp, "additional_context")) ->
               [context |-> resp["additional_context"],
                context_length |-> Len(resp["additional_context"])]
          [] OTHER -> results[section]]

\* what save_results does with the outcome of the write: saved tells
\* whether the file was written, raised whether an exception leaves
\* save_results
SaveOutcome(saved, raised, message) ==
    [saved |-> saved, raised |-> raised, out |-> message]

\* lets the failure of the write leave save_results
save_results_uncaught(filename, write_ok) ==
    IF write_ok THEN SaveOutcome(TRUE, FALSE, <<"write results", "\nResults saved to: ">>)
    ELSE SaveOutcome(FALSE, TRUE, <<>>)

\* save_results of EnhancedAnalysisQuestionnaire and of
\* ExperimentMonitoringQuestionnaire: open() and json.dump() are inside the
\* try, write_ok = FALSE stands for their failure
save_results(filename, write_ok) ==
    IF write_ok THEN SaveOutcome(TRUE, FALSE, <<"write results", "\nResults saved to: ">>)
    ELSE SaveOutcome(FALSE, FALSE, <<"Error saving results: ">>)

\* the prompts of the entry point of a class
Prompts(class) ==
    IF class = "EnhancedAnalysisQuestionnaire"
    THEN {"select", "conduct", "save_choice", "filename"}
    ELSE {"conduct"}

InitRun ==
    /\ cls \in {"EnhancedAnalysisQuestionnaire", "ExperimentMonitoringQuestionnaire",
                SqlClass}
    /\ pc = IF cls = "EnhancedAnalysisQuestionnaire" THEN "select" ELSE "conduct"
    /\ selected_question_set =
         CASE cls = "ExperimentMonitoringQuestionnaire" -> "experiment_monitoring"
           [] cls = SqlClass -> "sql_experiment_monitoring"
           [] OTHER -> None
    /\ questions =
         CASE cls = "ExperimentMonitoringQuestionnaire" -> experiment_questions
           [] cls = SqlClass -> sql_experiment_questions
           [] OTHER -> <<>>
    /\ qi = 1
    /\ responses = EmptyDict
    /\ now = Clock(2024, 3, 8, 1)
    /\ last = NoOutcome
    /\ call = NoCall
    /\ analysis_results = EmptyDict
    /\ out = <<>>

\* select_question_set, one pass of its prompt loop
RunSelect ==
    /\ pc = "select"
    /\ \E line \in RunSelectTyped : Select(ParseInt(line), get_available_question_sets)
    /\ UNCHANGED <<cls, qi, responses, now, last, call, analysis_results, out>>

\* conduct_questionnaire of EnhancedAnalysisQuestionnaire, one pass of the
\* prompt loop of the question at hand
RunConduct ==
    /\ pc = "conduct"
    /\ cls = "EnhancedAnalysisQuestionnaire"
    /\ qi <= Len(questions)
    /\ \E line \in RunTyped(questions[qi]) :
         Asked(questions[qi], line, get_user_input(questions[qi], line))
    /\ UNCHANGED <<cls, selected_question_set, questions, now, call, analysis_results, out>>

\* conduct_questionnaire of ExperimentMonitoringQuestionnaire, one pass
RunConductValidated ==
    /\ pc = "conduct"
    /\ cls = "ExperimentMonitoringQuestionnaire"
    /\ qi <= Len(questions)
    /\ \E line \in RunTyped(questions[qi]) :
         AskedValidated(questions[qi],
                        _get_validated_response(responses, questions[qi], qi, line, now))
    /\ UNCHANGED <<cls, selected_question_set, questions, now, call, analysis_results, out>>

\* the question loop of run_interactive_questionnaire, one pass: the
\* stripped line is the answer, and an empty one is asked again when the
\* question is required
RunInteractiveAsk ==
    /\ pc = "conduct"
    /\ cls = SqlClass
    /\ qi <= Len(questions)
    /\ \E line \in InteractiveTyped(questions[qi]) :
         /\ last' = Outcome(qi, line, TRUE, ~questions[qi].required \/ Strip(line) # <<>>,
                            FALSE, Valid, FALSE)
         /\ Store(questions[qi],
                  IF questions[qi].required /\ Strip(line) = <<>>
                  THEN Retry ELSE Return(Strip(line)))
    /\ UNCHANGED <<cls, selected_question_set, questions, now, call, analysis_results, out>>

\* run_full_analysis of EnhancedAnalysisQuestionnaire from the last answer
\* to the prompt of the save choice: analyze_responses, display_analysis
RunAnalyze ==
    /\ pc = "completed"
    /\ cls = "EnhancedAnalysisQuestionnaire"
    /\ analysis_results' =
         analyze_responses(analysis_results, selected_question_set, questions, responses)
    /\ out' = out \o <<"analyze_responses", "display_analysis">>
    /\ pc' = "save_choice"
    /\ UNCHANGED <<cls, selected_question_set, questions, qi, responses, now, last, call>>

\* the prompt of the save choice
RunSaveChoice ==
    /\ pc = "save_choice"
    /\ \E line \in SaveChoiceTyped :
         IF Lower(line) \in {<<"y">>, <<"y", "e", "s">>}
         THEN pc' = "filename" /\ UNCHANGED out
         ELSE pc' = "complete" /\ out' = out \o <<CompleteMessage(cls)>>
    /\ UNCHANGED <<cls, selected_question_set, questions, qi, responses, now, last, call,
                   analysis_results>>

\* the prompt of the file name, save_results and the end of
\* run_full_analysis; call keeps the response map and the analysis that
\* save_results was given
RunSaveResults ==
    /\ pc = "filename"
    /\ \E line \in FilenameTyped, write_ok \in BOOLEAN :
         LET filename == IF Strip(line) = <<>> THEN None ELSE Strip(line)
         IN  /\ call' = Returned("save_results",
                                 <<filename, write_ok, responses, analysis_results>>,
                                 save_results(filename, write_ok))
             /\ out' = out \o save_results(filename, write_ok).out
                           \o <<IF save_results(filename, write_ok).raised
                                THEN ErrorMessage ELSE CompleteMessage(cls)>>
             /\ pc' = IF save_results(filename, write_ok).raised
                      THEN "failed" ELSE "complete"
    /\ UNCHANGED <<cls, selected_question_set, questions, qi, responses, now, last,
                   analysis_results>>

\* run_full_analysis of ExperimentMonitoringQuestionnaire from the last
\* answer to its return: the analysis, the display, the query, its file,
\* the editor, the file and the helper process of the execution; sql_ok,
\* mcp_ok and helper_ok = FALSE stand for the failure of the two writes and
\* of the helper process
RunExperimentFinish ==
    /\ pc = "completed"
    /\ cls = "ExperimentMonitoringQuestionnaire"
    /\ analysis_results' = analyze_experiment_responses(analysis_results, responses, now)
    /\ \E sql_ok \in BOOLEAN, mcp_ok \in BOOLEAN, helper_ok \in BOOLEAN :
         out' = out \o <<"analyze_responses", "display_analysis", "generate_populated_sql">>
                \o (IF ~generate_populated_sql(responses).ok \/ ~sql_ok
                    THEN <<"Error generating SQL query: ">>
                    ELSE <<"write query", "open_in_cursor">>
                         \o (IF ~mcp_ok THEN <<"Error in SQL execution process: ">>
                             ELSE <<"write mcp_ready_query.sql", "mcp_executor.py">>
                                  \o (IF helper_ok THEN <<"AUTO-EXECUTION READY">>
                                      ELSE <<"MCP preparation issue: ">>)))
                \o <<CompleteMessage(cls)>>
    /\ pc' = "complete"
    /\ UNCHANGED <<cls, selected_question_set, questions, qi, responses, now, last, call>>

\* run_interactive_questionnaire from the last answer to its return: the
\* query from the text of query.sql, its file and the file of the answers
RunInteractiveFinish ==
    /\ pc = "completed"
    /\ cls = SqlClass
    /\ \E readable \in BOOLEAN, sql_template \in Templates, sql_ok \in BOOLEAN,
          json_ok \in BOOLEAN :
         /\ call' = Returned("generate_populated_sql", <<readable, sql_template>>,
                             generate_populated_sql_template(responses, readable,
                                                             sql_template))
         /\ out' = out \o <<"generate_populated_sql">>
                   \o (IF ~sql_ok THEN <<"Error generating SQL: ">>
                       ELSE <<"write query", "SQL QUERY GENERATED!">>
                            \o (IF json_ok THEN <<"write responses">>
                                ELSE <<"Error generating SQL: ">>))
    /\ pc' = "complete"
    /\ UNCHANGED <<cls, selected_question_set, questions, qi, responses, now, last,
                   analysis_results>>

\* save_results of ExperimentMonitoringQuestionnaire, which no entry point
\* calls, called on the instance once its run is over
CallSaveResults ==
    /\ pc = "complete"
    /\ cls = "ExperimentMonitoringQuestionnaire"
    /\ \E filename \in {None, <<"a">>}, write_ok \in BOOLEAN :
         /\ call' = Returned("save_results",
                             <<filename, write_ok, responses, analysis_results>>,
                             save_results(filename, write_ok))
         /\ out' = out \o save_results(filename, write_ok).out
    /\ pc' = "saved"
    /\ UNCHANGED <<cls, selected_question_set, questions, qi, responses, now, last,
                   analysis_results>>

\* KeyboardInterrupt out of input(): the two run_full_analysis catch it and
\* print; run_interactive_questionnaire has no handler for it
KeyboardInterrupt(class) ==
    IF class = SqlClass
    THEN [pc |-> "raised", out |-> <<>>]
    ELSE [pc |-> "interrupted", out |-> <<InterruptedMessage>>]

\* the user interrupts the run at the prompt it waits at
Interrupt ==
    /\ pc \in Prompts(cls)
    /\ pc' = KeyboardInterrupt(cls).pc
    /\ out' = out \o KeyboardInterrupt(cls).out
    /\ UNCHANGED <<cls, selected_question_set, questions, qi, responses, now, last, call,
                   analysis_results>>

NextRun ==
    \/ RunSelect
    \/ RunConduct
    \/ RunConductValidated
    \/ RunInteractiveAsk
    \/ RunAnalyze
    \/ RunSaveChoice
    \/ RunSaveResults
    \/ RunExperimentFinish
    \/ RunInteractiveFinish
    \/ CallSaveResults
    \/ Interrupt

SpecRun == InitRun /\ [][NextRun]_vars

----------------------------------------------------------------------------
(* The warehouse operations of ExperimentMonitoringQuestionnaire:          *)
(* execute_sql_query, execute_sql_query_optimized and execute_sql_via_mcp. *)
(* What their collaborators do is an input: whether the connector is       *)
(* installed, whether the credentials are set, whether the connection and  *)
(* the statements succeed, the rows fetched, whether the helper script can *)
(* be written and how the helper process ends.                             *)

\* how the helper process ends: with the record its script prints, with a
\* return code other than 0, or with an output that is not JSON
HelperOutcomes == {"ready", "failed", "garbled"}

Environments ==
    [connector : BOOLEAN, credentials : BOOLEAN, connect_ok : BOOLEAN,
     query_ok : BOOLEAN, rows : {<<>>, <<"row">>}, script_ok : BOOLEAN,
     helper : HelperOutcomes]

\* the date filter of add_performance_optimizations
DateFilter(control_start, control_end, test_start, test_end) ==
    <<"\n  AND (\n    to_date(cfv5.CHECKOUT_CREATED_DT) BETWEEN '">> \o control_start
    \o <<"' AND '">> \o control_end
    \o <<"'\n    OR to_date(cfv5.CHECKOUT_CREATED_DT) BETWEEN '">> \o test_start
    \o <<"' AND '">> \o test_end \o <<"'\n  )">>

\* add_performance_optimizations: the query of the f-string generator has a
\* WHERE clause, and its "group by all" is replaced
add_performance_optimizations(resp, base_sql) ==
    Replace(base_sql, "group by all",
            DateFilter(Get(resp, "control_start_date"), Get(resp, "control_end_date"),
                       Get(resp, "test_start_date"), Get(resp, "test_end_date"))
            \o <<"\n\ngroup by 1, 2, 3, 4, 5\nORDER BY analysis_period, user_status, AOV_bucket, itacs_bucket, fico_bucket">>)

\* the record returned with the rows fetched
Fetched(rows, sql_query) ==
    [success |-> TRUE, data |-> rows, row_count |-> Len(rows), columns |-> <<"column">>,
     sql_query |-> sql_query]

Failure(error) == [success |-> FALSE, error |-> error]

\* execute_sql_via_mcp: the query is handed to a helper process, which
\* prints a record saying that the query is ready; nothing is sent to the
\* warehouse
execute_sql_via_mcp(resp, env) ==
    IF ~generate_populated_sql(resp).ok \/ ~env.script_ok \/ env.helper = "garbled"
    THEN [success |-> FALSE, error |-> "Failed to execute via MCP: ", sql_query |-> None]
    ELSE IF env.helper = "ready"
    THEN [success |-> TRUE, needs_mcp_execution |-> TRUE,
          sql_query |-> add_performance_optimizations(resp,
                                                      generate_populated_sql(resp).val),
          message |-> "SQL query ready for execution"]
    ELSE [success |-> FALSE, error |-> "MCP script execution failed: ",
          sql_query |-> add_performance_optimizations(resp,
                                                      generate_populated_sql(resp).val)]

\* the statements of both direct operations reach the warehouse and the
\* rows come back
Executed(resp, env) ==
    /\ env.connector /\ env.credentials /\ env.connect_ok
    /\ generate_populated_sql(resp).ok
    /\ env.query_ok

execute_sql_query(resp, env) ==
    IF ~env.connector
    THEN Failure("Snowflake connector not installed. Please install with: pip install snowflake-connector-python")
    ELSE IF ~Executed(resp, env) THEN Failure("Failed to execute SQL query: ")
    ELSE Fetched(env.rows, generate_populated_sql(resp).val)

execute_sql_query_optimized(resp, env) ==
    IF ~Executed(resp, env) THEN execute_sql_via_mcp(resp, env)
    ELSE Fetched(env.rows,
                 add_performance_optimizations(resp, generate_populated_sql(resp).val))

WarehouseOperations ==
    {"execute_sql_query", "execute_sql_query_optimized", "execute_sql_via_mcp"}

\* the response maps of the instance: none yet, or those of a completed run
WarehouseResponses ==
    {EmptyDict} \cup {resp \in ExperimentSqlResponses : resp.merchant_aris = <<"a", ",", "b">>}

InitWarehouse ==
    /\ cls = "ExperimentMonitoringQuestionnaire"
    /\ pc = "warehouse"
    /\ selected_question_set = "experiment_monitoring"
    /\ questions = experiment_questions
    /\ qi = Len(questions) + 1
    /\ responses \in WarehouseResponses
    /\ now = Clock(2024, 3, 8, 1)
    /\ last = NoOutcome
    /\ call = NoCall
    /\ analysis_results = EmptyDict
    /\ out = <<>>

CallExecuteSqlQuery ==
    /\ pc = "warehouse"
    /\ \E env \in Environments :
         call' = Returned("execute_sql_query", <<env>>, execute_sql_query(responses, env))
    /\ pc' = "returned"
    /\ UNCHANGED <<cls, selected_question_set, questions, qi, responses, now, last,
                   analysis_results, out>>

CallExecuteSqlQueryOptimized ==
    /\ pc = "warehouse"
    /\ \E env \in Environments :
         call' = Returned("execute_sql_query_optimized", <<env>>,
                          execute_sql_query_optimized(responses, env))
    /\ pc' = "returned"
    /\ UNCHANGED <<cls, selected_question_set, questions, qi, responses, now, last,
                   analysis_results, out>>

CallExecuteSqlViaMcp ==
    /\ pc = "warehouse"
    /\ \E env \in Environments :
         call' = Returned("execute_sql_via_mcp", <<env>>,
                          execute_sql_via_mcp(responses, env))
    /\ pc' = "returned"
    /\ UNCHANGED <<cls, selected_question_set, questions, qi, responses, now, last,
                   analysis_results, out>>

NextWarehouse ==
    \/ CallExecuteSqlQuery
    \/ CallExecuteSqlQueryOptimized
    \/ CallExecuteSqlViaMcp

SpecWarehouse == InitWarehouse /\ [][NextWarehouse]_vars

----------------------------------------------------------------------------
(* Question sets built at run time: validate_question_format and the two   *)
(* constructors that run it over their list of questions.  The catalogs    *)
(* above leave the wording of a question out; a question handed to the     *)
(* validator carries the "question" key that the validator looks for.      *)

QUESTION_TYPES == {"multiple_choice", "multi_select", "text", "numeric", "date", "rating"}

validate_question_format(question) ==
    /\ \A field \in {"id", "question", "type"} : field \in DOMAIN question
    /\ question.type \in QUESTION_TYPES
    /\ question.type \in {"multiple_choice", "multi_select"}
         => "options" \in DOMAIN question /\ question.options # <<>>

create_custom_question_set(name, description, qs, category) ==
    [name |-> name, description |-> description, questions |-> qs, category |-> category]

\* the validation loop of a constructor: the number of questions it reports
\* on before it stops, and whether it reached the end of the list
RECURSIVE ValidateFrom(_, _)
ValidateFrom(qs, i) ==
    IF i > Len(qs) THEN [valid |-> TRUE, reported |-> Len(qs)]
    ELSE IF validate_question_format(qs[i]) THEN ValidateFrom(qs, i + 1)
    ELSE [valid |-> FALSE, reported |-> i]

ValidateQuestions_firstonly(qs) ==
    IF qs = <<>> \/ validate_question_format(qs[1])
    THEN [valid |-> TRUE, reported |-> Len(qs)]
    ELSE [valid |-> FALSE, reported |-> 1]

ValidateQuestions(qs) == ValidateFrom(qs, 1)

\* what a constructor returns: None, or the set it built
NotCreated(reported) == [created |-> FALSE, reported |-> reported]

Created(reported, custom_set) ==
    [created |-> TRUE, reported |-> reported, set |-> custom_set]

\* create_custom_questionnaire, on the list of questions written in its body
create_custom_questionnaire(qs) ==
    LET v == ValidateQuestions(qs) IN
    IF ~v.valid THEN NotCreated(v.reported)
    ELSE Created(v.reported,
                 create_custom_question_set("Employee Satisfaction Survey",
                     "Comprehensive employee satisfaction and engagement analysis",
                     qs, "hr"))

\* create_experiment_monitoring_questions, on the list written in its body
create_experiment_monitoring_questions(qs) ==
    LET v == ValidateQuestions(qs) IN
    IF ~v.valid THEN NotCreated(v.reported)
    ELSE Created(v.reported,
                 create_custom_question_set("Experiment Monitoring Questionnaire",
                     "Comprehensive experiment monitoring setup and configuration",
                     qs, "experiment"))

\* whether get_user_input reaches an input() call for the question: every
\* branch but the last one reads a line
ReadsInput(question_data) == question_data.type \in SupportedTypes

(* The questions and lists given to the validator and the constructors:    *)
(* the questions of the catalogs as written, and each of them with one key *)
(* removed or changed.                                                     *)

Worded(q) ==
    [f \in DOMAIN q \cup {"question"} |-> IF f = "question" THEN q.id ELSE q[f]]

Drop(q, field) == [f \in DOMAIN q \ {field} |-> q[f]]

With(q, field, v) == [f \in DOMAIN q \cup {field} |-> IF f = field THEN v ELSE q[f]]

Variants(q) ==
    {q, Drop(q, "id"), Drop(q, "question"), Drop(q, "type"), Drop(q, "options"),
     With(q, "options", <<>>), With(q, "type", "checkbox"), With(q, "type", "date"),
     With(q, "type", "rating"), With(q, "scale", 0), With(Drop(q, "options"), "type", "numeric")}

FormatQuestions == UNION {Variants(Worded(q)) : q \in AllQuestions}

WordedList(qs) == [i \in 1..Len(qs) |-> Worded(qs[i])]

\* the list with one of its questions replaced by a variant of it
ListVariants(qs) ==
    UNION {{[qs EXCEPT ![k] = v] : v \in Variants(qs[k])} : k \in 1..Len(qs)}

FormatLines == {<<>>, <<"1">>, <<"2">>, <<"x">>}

InitFormat ==
    /\ cls = "EnhancedAnalysisQuestionnaire"
    /\ pc = "format"
    /\ selected_question_set = ""
    /\ questions = <<>>
    /\ qi = 1
    /\ responses = EmptyDict
    /\ now = Clock(2024, 3, 8, 1)
    /\ last = NoOutcome
    /\ call = NoCall
    /\ analysis_results = EmptyDict
    /\ out = <<>>

CallValidateQuestionFormat ==
    /\ pc = "format"
    /\ \E q \in FormatQuestions :
         call' = Returned("validate_question_format", <<q>>, validate_question_format(q))
    /\ pc' = "returned"
    /\ UNCHANGED <<cls, selected_question_set, questions, qi, responses, now, last,
                   analysis_results, out>>

CallCreateCustomQuestionnaire ==
    /\ pc = "format"
    /\ \E qs \in ListVariants(WordedList(custom_questions)) :
         call' = Returned("create_custom_questionnaire", <<qs>>, create_custom_questionnaire(qs))
    /\ pc' = "returned"
    /\ UNCHANGED <<cls, selected_question_set, questions, qi, responses, now, last,
                   analysis_results, out>>

CallCreateExperimentMonitoringQuestions ==
    /\ pc = "format"
    /\ \E qs \in ListVariants(WordedList(experiment_questions)) :
         call' = Returned("create_experiment_monitoring_questions", <<qs>>,
                          create_experiment_monitoring_questions(qs))
    /\ pc' = "returned"
    /\ UNCHANGED <<cls, selected_question_set, questions, qi, responses, now, last,
                   analysis_results, out>>

\* get_user_input on a question of a validated set and the line typed at
\* its first prompt, if it has one
CallGetUserInputOfValidated ==
    /\ pc = "format"
    /\ \E q \in {x \in FormatQuestions : validate_question_format(x)}, line \in FormatLines :
         call' = Returned("get_user_input", <<q, line>>,
                          [reads |-> ReadsInput(q), outcome |-> get_user_input(q, line)])
    /\ pc' = "returned"
    /\ UNCHANGED <<cls, selected_question_set, questions, qi, responses, now, last,
                   analysis_results, out>>

NextFormat ==
    \/ CallValidateQuestionFormat
    \/ CallCreateCustomQuestionnaire
    \/ CallCreateExperimentMonitoringQuestions
    \/ CallGetUserInputOfValidated

SpecFormat == InitFormat /\ [][NextFormat]_vars

----------------------------------------------------------------------------
(* display_analysis, and analyze_responses called again on an instance     *)
(* whose answers were given again.  What display_analysis prints is a      *)
(* sequence of lines; a line keeps what it is (kind) and what it shows     *)
(* (value): a section's name, the data of a section, a key of the overall  *)
(* assessment with its value.                                              *)

Line(kind, value) == [kind |-> kind, value |-> value]

\* the sections of an analysis in the order analyze_responses inserts them
\* in analysis_results, the overall assessment left out
SectionOrder(class, set_name) ==
    IF class = "ExperimentMonitoringQuestionnaire"
    THEN <<"experiment_analysis", "merchant_ari_analysis", "test_timing_analysis",
           "control_period_analysis", "metrics_analysis", "segmentation_analysis",
           "additional_context_analysis">>
    ELSE IF set_name \in FourSets
    THEN [k \in 1..Len(SectionsOf(set_name)) |-> SectionsOf(set_name)[k].section]
    ELSE <<"generic_analysis">>

\* "for section, data in self.analysis_results.items(): if section ==
\* 'overall_assessment': continue": the heading of the section and its data
SectionLines(results, order) ==
    Flatten([k \in 1..Len(order) |->
                IF order[k] \in DOMAIN results /\ order[k] # "overall_assessment"
                THEN <<Line("section", order[k]), Line("data", results[order[k]])>>
                ELSE <<>>],
            1, Len(order))

\* overall.get(key, 'Unknown')
OverallLine(overall, key) ==
    Line(key, IF key \in DOMAIN overall THEN overall[key] ELSE "Unknown")

\* the block of the overall assessment
OverallLines(class, results) ==
    IF "overall_assessment" \notin DOMAIN results THEN <<>>
    ELSE LET overall == results["overall_assessment"]
             recs == IF "key_recommendations" \in DOMAIN overall
                     THEN overall["key_recommendations"] ELSE <<>>
         IN  <<Line("overall", "Overall Assessment")>>
             \o (IF class = "ExperimentMonitoringQuestionnaire"
                 THEN <<OverallLine(overall, "complexity_level"),
                        OverallLine(overall, "complexity_score"),
                        OverallLine(overall, "monitoring_scope"),
                        OverallLine(overall, "experiment_readiness")>>
                 ELSE <<OverallLine(overall, "risk_level"),
                        OverallLine(overall, "overall_health"),
                        OverallLine(overall, "risk_score")>>)
             \o <<Line("overall", "Key Recommendations:")>>
             \o [k \in 1..Len(recs) |-> Line("recommendation", recs[k])]

\* prints the overall assessment where the loop meets it
display_analysis_inplace(class, set_name, results) ==
    IF class # "ExperimentMonitoringQuestionnaire" /\ set_name \notin FourSets
    THEN [raised |-> TRUE, lines |-> <<>>]
    ELSE [raised |-> FALSE,
          lines |-> <<Line("banner", set_name)>>
                    \o OverallLines(class, results)
                    \o SectionLines(results, SectionOrder(class, set_name))]

\* display_analysis: the lines printed; the enhanced class reads the name
\* of the selected set from QUESTION_SETS first, a KeyError when the set is
\* not one of them
display_analysis(class, set_name, results) ==
    IF class # "ExperimentMonitoringQuestionnaire" /\ set_name \notin FourSets
    THEN [raised |-> TRUE, lines |-> <<>>]
    ELSE [raised |-> FALSE,
          lines |-> <<Line("banner", set_name)>>
                    \o SectionLines(results, SectionOrder(class, set_name))
                    \o OverallLines(class, results)]

\* the analysis a new instance makes of the answers
FreshAnalysis(class, set_name, qs, resp, today) ==
    IF class = "ExperimentMonitoringQuestionnaire"
    THEN analyze_experiment_responses(EmptyDict, resp, today)
    ELSE analyze_responses(EmptyDict, set_name, qs, resp)

\* the answers the collector can store when a question is asked again: the
\* optional additional_context can be left empty; a question a section of
\* the four sets is made from is required and gets one of its options (one
\* or two of them for a multi-select)
Reanswers(class, set_name, qs) ==
    IF class = "ExperimentMonitoringQuestionnaire"
    THEN {[field |-> "additional_context", value |-> v] : v \in {<<>>, <<"x">>}}
    ELSE UNION {{[field |-> SectionsOf(set_name)[k].field, value |-> v] :
                    v \in IF SectionsOf(set_name)[k].list
                          THEN {SubSeq(QuestionById(qs, SectionsOf(set_name)[k].field).options,
                                       1, n) : n \in 1..2}
                          ELSE {QuestionById(qs, SectionsOf(set_name)[k].field).options[n] :
                                  n \in 1..2}} :
                k \in 1..Len(SectionsOf(set_name))}

InitReport ==
    /\ cls \in {"EnhancedAnalysisQuestionnaire", "ExperimentMonitoringQuestionnaire"}
    /\ pc = "collected"
    /\ selected_question_set \in
         (IF cls = "ExperimentMonitoringQuestionnaire" THEN {"experiment_monitoring"}
          ELSE FourSets \cup {None})
    /\ questions = IF cls = "ExperimentMonitoringQuestionnaire" THEN experiment_questions
                   ELSE IF selected_question_set \in FourSets
                   THEN get_question_set(selected_question_set) ELSE <<>>
    /\ qi = 1
    /\ responses \in
         (IF cls = "ExperimentMonitoringQuestionnaire"
          THEN AssessedResponses(cls, selected_question_set)
          ELSE AnalysedResponses(selected_question_set))
    /\ now = Clock(2024, 3, 8, 1)
    /\ last = NoOutcome
    /\ call = NoCall
    /\ analysis_results = EmptyDict
    /\ out = <<>>

\* analyze_responses of the instance, the first time and after an answer
\* was given again
ReportAnalyze ==
    /\ pc \in {"collected", "reanswered"}
    /\ analysis_results' =
         IF cls = "ExperimentMonitoringQuestionnaire"
         THEN analyze_experiment_responses(analysis_results, responses, now)
         ELSE analyze_responses(analysis_results, selected_question_set, questions, responses)
    /\ pc' = IF pc = "collected" THEN "analyzed" ELSE "reanalyzed"
    /\ UNCHANGED <<cls, selected_question_set, questions, qi, responses, now, last, call,
                   out>>

\* analyze_responses a second time on unchanged answers
ReportAnalyzeAgain ==
    /\ pc = "analyzed"
    /\ analysis_results' =
         IF cls = "ExperimentMonitoringQuestionnaire"
         THEN analyze_experiment_responses(analysis_results, responses, now)
         ELSE analyze_responses(analysis_results, selected_question_set, questions, responses)
    /\ pc' = "analyzed_twice"
    /\ UNCHANGED <<cls, selected_question_set, questions, qi, responses, now, last, call,
                   out>>

\* "self.responses[question['id']] = response" for a question asked again
ReportReanswer ==
    /\ pc = "analyzed"
    /\ \E a \in Reanswers(cls, selected_question_set, questions) :
         responses' = Put(responses, a.field, a.value)
    /\ pc' = "reanswered"
    /\ UNCHANGED <<cls, selected_question_set, questions, qi, analysis_results, now, last,
                   call, out>>

\* display_analysis, called once and then once more
ReportDisplay ==
    /\ pc \in {"analyzed", "displayed"}
    /\ LET shown == display_analysis(cls, selected_question_set, analysis_results) IN
         /\ out' = out \o shown.lines
         /\ call' = Returned("display_analysis", <<responses, analysis_results>>, shown)
    /\ pc' = IF pc = "analyzed" THEN "displayed" ELSE "displayed_twice"
    /\ UNCHANGED <<cls, selected_question_set, questions, qi, responses, now, last,
                   analysis_results>>

NextReport ==
    \/ ReportAnalyze
    \/ ReportAnalyzeAgain
    \/ ReportReanswer
    \/ ReportDisplay

SpecReport == InitReport /\ [][NextReport]_vars

----------------------------------------------------------------------------
(* _compile_all_metrics on what the multi-select prompt of                 *)
(* metrics_to_monitor returns for the numbers typed.                       *)

\* most numbers typed at the prompt of metrics_to_monitor
MaxPicked == 2

\* a number as it is typed
NumberLine(n) == IF n < 10 THEN Digits(n, 1) ELSE Digits(n, 2)

\* the lines typed: up to MaxPicked numbers of options, separated by commas
PickedLines ==
    UNION {{Join([i \in 1..k |-> NumberLine(nums[i])], <<",">>) :
              nums \in [1..k -> 1..Len(QuestionById(experiment_questions,
                                                    "metrics_to_monitor").options)]} :
           k \in 1..MaxPicked}

InitMetrics ==
    /\ cls = "ExperimentMonitoringQuestionnaire"
    /\ pc = "metrics"
    /\ selected_question_set = "experiment_monitoring"
    /\ questions = experiment_questions
    /\ qi = 1
    /\ responses = EmptyDict
    /\ now = Clock(2024, 3, 8, 1)
    /\ last = NoOutcome
    /\ call = NoCall
    /\ analysis_results = EmptyDict
    /\ out = <<>>

\* the answer get_user_input returns for the line, then _compile_all_metrics
\* on that answer
CallCompileAllMetrics ==
    /\ pc = "metrics"
    /\ \E line \in PickedLines :
         LET answer == get_user_input(QuestionById(questions, "metrics_to_monitor"), line) IN
           /\ answer.ok
           /\ call' = Returned("_compile_all_metrics", <<answer.val>>,
                               _compile_all_metrics(answer.val, <<>>))
    /\ pc' = "returned"
    /\ UNCHANGED <<cls, selected_question_set, questions, qi, responses, now, last,
                   analysis_results, out>>

NextMetrics == CallCompileAllMetrics

SpecMetrics == InitMetrics /\ [][NextMetrics]_vars

----------------------------------------------------------------------------
(* The claims.                                                             *)

Experiment == cls = "ExperimentMonitoringQuestionnaire"

\* the stored answer to a date question, parsed
Stored(id) == Strptime(Get(responses, id))

\* C1: when conduct_questionnaire of the experiment-monitoring collector has
\* run to completion, the four stored dates parse as YYYY-MM-DD, and
\* test_start_date < test_end_date, control_start_date < control_end_date,
\* control_end_date < test_start_date.
C1_CompletedDatesConsistent ==
    (Experiment /\ pc = "completed") =>
        /\ Stored("test_start_date").ok /\ Stored("test_end_date").ok
        /\ Stored("control_start_date").ok /\ Stored("control_end_date").ok
        /\ Stored("test_start_date").ord < Stored("test_end_date").ord
        /\ Stored("control_start_date").ord < Stored("control_end_date").ord
        /\ Stored("control_end_date").ord < Stored("test_start_date").ord

\* a completed run whose control period ends the day before the test starts
C1_Witness ==
    /\ Experiment /\ pc = "completed"
    /\ Stored("control_end_date").ord + 1 = Stored("test_start_date").ord

\* C2: with both test-period dates stored, an answer to control_start_date
\* that is on or after test_start_date is refused at the control_start_date
\* prompt.
C2_ControlStartRefusedAtItsPrompt ==
    (/\ Experiment /\ last.read /\ last.qn = 6
     /\ questions[last.qn].id = "control_start_date"
     /\ Truthy(Get(responses, "test_start_date")) /\ Truthy(Get(responses, "test_end_date"))
     /\ Strptime(Strip(last.line)).ok
     /\ Strptime(Strip(last.line)).ord >= Stored("test_start_date").ord)
        => ~last.accepted

\* get_user_input taken alone has made one pass on a question of this type
Prompted1(type) == pc = "prompted" /\ last.read /\ questions[1].type = type

\* C3: on a multiple_choice question with n options a line is accepted
\* exactly when it is a number in 1..n; the value returned is then
\* options[number - 1] (0-based), a member of the options, and any other
\* line is answered by a re-prompt.
C3_SingleChoiceInRange ==
    Prompted1("multiple_choice") =>
        LET options == questions[1].options
            choice == ParseInt(last.line)
        IN  /\ last.accepted <=> (choice.ok /\ choice.val \in 1..Len(options))
            /\ last.accepted =>
                 /\ responses[questions[1].id] = options[choice.val]
                 /\ \E i \in 1..Len(options) : responses[questions[1].id] = options[i]
            /\ ~last.accepted => responses = EmptyDict

\* the last option of a question is chosen by its number
C3_Witness ==
    /\ Prompted1("multiple_choice") /\ last.accepted
    /\ ParseInt(last.line).val = Len(questions[1].options)
    /\ responses[questions[1].id] = questions[1].options[Len(questions[1].options)]

\* C4: on a rating question of scale s a line is accepted exactly when it
\* is an integer in 1..s, and that integer is returned; an accepted rating
\* is never 0, negative or greater than s.
C4_RatingInScale ==
    Prompted1("rating") =>
        LET scale == Scale(questions[1])
            rating == ParseInt(last.line)
        IN  /\ last.accepted <=> (rating.ok /\ rating.val \in 1..scale)
            /\ last.accepted =>
                 /\ responses[questions[1].id] = rating.val
                 /\ responses[questions[1].id] >= 1
                 /\ responses[questions[1].id] <= scale
            /\ ~last.accepted => responses = EmptyDict

\* the top of a scale of 10 is accepted
C4_Witness ==
    /\ Prompted1("rating") /\ last.accepted
    /\ Scale(questions[1]) = 10 /\ responses[questions[1].id] = 10

\* C5: on a multi_select question a non-empty line is accepted exactly when
\* every comma-separated field is a number in 1..len(options), and the
\* options of those numbers are returned in the order typed; an empty line
\* is accepted, as the empty list, exactly when the question is optional; a
\* required question never returns the empty list.
C5_MultiSelectAllOrNothing ==
    Prompted1("multi_select") =>
        LET options == questions[1].options
            required == Required(questions[1])
            choices_input == Strip(last.line)
            numbers == ParseFields(Split(choices_input, ","))
            AllGood == \A i \in 1..Len(numbers) :
                          numbers[i].ok /\ numbers[i].val \in 1..Len(options)
        IN  /\ choices_input # <<>> =>
                 /\ last.accepted <=> AllGood
                 /\ last.accepted =>
                      responses[questions[1].id] =
                          [i \in 1..Len(numbers) |-> options[numbers[i].val]]
            /\ choices_input = <<>> =>
                 /\ last.accepted <=> ~required
                 /\ last.accepted => responses[questions[1].id] = <<>>
            /\ (last.accepted /\ required) => responses[questions[1].id] # <<>>
            /\ ~last.accepted => responses = EmptyDict

\* two options chosen in descending order are returned in that order
C5_Witness ==
    /\ Prompted1("multi_select") /\ last.accepted
    /\ last.line = <<"2", ",", "1">>
    /\ responses[questions[1].id] = <<questions[1].options[2], questions[1].options[1]>>

\* the ids of the questions of the run
QuestionIds == {questions[i].id : i \in 1..Len(questions)}

\* C6: conduct_questionnaire asks the questions in catalog order: it moves
\* from question k to question k+1 only with an accepted answer to k stored,
\* and to no other question; at completion the response map holds one entry
\* for every question of the set (none is omitted) and nothing else.
C6_InOrderOneEntryEach ==
    [][/\ qi' = qi \/ (/\ qi' = qi + 1
                       /\ last'.accepted /\ last'.qn = qi
                       /\ questions[qi].id \in DOMAIN responses')
       /\ pc' = "completed" =>
            /\ qi' = Len(questions') + 1
            /\ DOMAIN responses' = QuestionIds'
            /\ Cardinality(DOMAIN responses') = Len(questions')]_vars

\* a completed run of a static set whose optional text answers were left
\* empty
C6_Witness ==
    /\ pc = "completed" /\ selected_question_set = "business_analysis"
    /\ responses["opportunities"] = <<>>
    /\ responses["challenges"] = <<"Market competition", "Regulatory compliance">>

\* the latest call of a validator
CalledFn(fn) == pc = "validated" /\ call.fn = fn

\* C7: _validate_date_range(start, end) is valid exactly when both lines
\* parse as dates and start is before end; a result that is not valid has
\* errors; the plausibility findings never change is_valid.
C7_RangeValidIffOrdered ==
    CalledFn("_validate_date_range") =>
        LET start == Strptime(call.args[1])
            end == Strptime(call.args[2])
        IN  /\ call.result.is_valid <=> (start.ok /\ end.ok /\ start.ord < end.ord)
            /\ ~call.result.is_valid => call.result.errors # <<>>

\* C8: in the experiment-monitoring collector a date answer whose validation
\* gives warnings and no error is accepted at that prompt: it is stored and
\* the run is at the next question.
C8_WarningsDoNotBlock ==
    (/\ Experiment /\ last.is_date
     /\ last.validation.warnings # <<>> /\ last.validation.errors = <<>>)
        => /\ last.accepted
           /\ Get(responses, questions[last.qn].id) = Strip(last.line)
           /\ qi = last.qn + 1

\* a test period that ends in the future is accepted with its warning
C8_Witness ==
    /\ Experiment /\ last.is_date /\ last.accepted /\ last.qn = 5
    /\ last.validation.warnings = <<"End date is in the future">>
    /\ qi = 6

\* the four arguments of the latest _validate_experiment_timing call parse
TimingArgsParse == \A i \in 1..4 : Strptime(call.args[i]).ok

\* test_start - control_end of the latest call, in days
Gap == Strptime(call.args[3]).ord - Strptime(call.args[2]).ord

\* C9: for parseable dates with a gap g >= 1 between control end and test
\* start, _validate_experiment_timing is valid with no error, and its
\* warnings are the small-gap warning alone for 1 <= g <= 7, none for
\* 8 <= g <= 30, the large-gap warning alone for g > 30.
C9_GapBands ==
    (CalledFn("_validate_experiment_timing") /\ TimingArgsParse /\ Gap >= 1) =>
        /\ call.result.is_valid
        /\ call.result.errors = <<>>
        /\ call.result.warnings =
             IF Gap <= 7
             THEN <<"Very small gap between control and test periods - ensure no carryover effects">>
             ELSE IF Gap <= 30 THEN <<>>
             ELSE <<"Large gap between control and test periods may affect comparison validity">>

\* a control period ending the day before the test starts
C9_Witness ==
    /\ CalledFn("_validate_experiment_timing") /\ TimingArgsParse /\ Gap = 1
    /\ call.result.is_valid
    /\ Len(call.result.warnings) = 1

\* C10: for parseable dates with the control period ending after the test
\* start, _validate_experiment_timing is not valid, with exactly one error
\* and exactly one warning, the overlap warning.
C10_OverlapOneErrorOneWarning ==
    (CalledFn("_validate_experiment_timing") /\ TimingArgsParse /\ Gap < 0) =>
        /\ ~call.result.is_valid
        /\ Len(call.result.errors) = 1
        /\ call.result.warnings =
             <<"Control and test periods overlap - this may invalidate your baseline comparison">>

\* a control period ending a week into the test period
C10_Witness ==
    /\ CalledFn("_validate_experiment_timing") /\ TimingArgsParse /\ Gap = 0 - 7
    /\ ~call.result.is_valid

\* the latest call returned from fn
ReturnedFrom(fn) == pc = "returned" /\ call.fn = fn

\* the separator of a text: the first present of comma, newline, semicolon,
\* else whitespace
FirstSeparator(text) ==
    IF Contains(text, ",") THEN ","
    ELSE IF Contains(text, "\n") THEN "\n"
    ELSE IF Contains(text, ";") THEN ";"
    ELSE " "

\* the text split on its separator, every item trimmed, empty items dropped
SplitByPriority(text) ==
    SelectSeq(StripAll(Split(text, FirstSeparator(text))), NotEmpty)

\* C11: the ARI list of the analysis and the ARI list put into the
\* generated query are both the answer text split on the first separator
\* present in the order comma, newline, semicolon, whitespace, with every
\* item trimmed and empty items dropped, so no item is empty or padded.
C11_AriListSplitByPriority ==
    (ReturnedFrom("_compile_all_aris") \/ ReturnedFrom("generate_populated_sql")) =>
        /\ call.result = SplitByPriority(call.args[1])
        /\ \A i \in 1..Len(call.result) :
             call.result[i] # <<>> /\ Strip(call.result[i]) = call.result[i]

Placeholders ==
    {"{pre_start_date}", "{pre_end_date}", "{post_start_date}", "{post_end_date}",
     "{merchant_ari_list}"}

\* what replaces a placeholder taken alone
ValueOf(placeholder, resp) ==
    CASE placeholder = "{pre_start_date}" -> Quoted(resp["pre_start_date"])
      [] placeholder = "{pre_end_date}" -> Quoted(resp["pre_end_date"])
      [] placeholder = "{post_start_date}" -> Quoted(resp["post_start_date"])
      [] placeholder = "{post_end_date}" -> Quoted(resp["post_end_date"])
      [] placeholder = "{merchant_ari_list}" -> FormattedAris(resp["merchant_aris"])

\* every placeholder of the text replaced by its value, in one pass
SubstituteAll(text, resp) ==
    Flatten([i \in 1..Len(text) |->
                IF text[i] \in Placeholders THEN ValueOf(text[i], resp) ELSE <<text[i]>>],
            1, Len(text))

\* the template with its WHERE clause on both columns cut down to the column
\* of the ARI type
OneColumn(sql_template, resp) ==
    ReSub(where_pattern,
          IF resp["ari_type"] = Spell("Merchant Partner ARIs")
          THEN <<"WHERE md.merchant_partner_ari IN (", "{merchant_ari_list}", ")">>
          ELSE <<"WHERE md.merchant_ari IN (", "{merchant_ari_list}", ")">>,
          sql_template)

\* the latest call is the template generator on a readable template
Filled == ReturnedFrom("generate_populated_sql") /\ cls = SqlClass /\ call.args[1]

\* C12: the template generator is a pure substitution: in the output every
\* placeholder occurrence of the template stands replaced by its own
\* response value, and text brought in by one replacement is not replaced
\* by a later one; with values that spell no placeholder, no placeholder
\* is left.
C12_PureSubstitution ==
    Filled =>
        /\ call.result = SubstituteAll(OneColumn(call.args[2], responses), responses)
        /\ (\A k \in DOMAIN responses : \A i \in 1..Len(responses[k]) :
               responses[k][i] \notin Placeholders)
             => \A i \in 1..Len(call.result) : call.result[i] \notin Placeholders

\* the query filters on the column merchant_ari
FiltersOnMerchant(sql) ==
    \E i \in 1..Len(sql) :
        sql[i] \in {"md.merchant_ari IN ('", "WHERE md.merchant_ari IN (", "md.merchant_ari"}

\* the query filters on the column merchant_partner_ari
FiltersOnPartner(sql) ==
    \E i \in 1..Len(sql) :
        sql[i] \in {"md.merchant_partner_ari IN ('", "') OR md.merchant_partner_ari IN ('",
                    "WHERE md.merchant_partner_ari IN (", "md.merchant_partner_ari"}

\* the stored ari_type is the option
AriTypeIs(option) ==
    responses["ari_type"] = IF cls = SqlClass THEN Spell(option) ELSE option

\* C13: a generated query filters on md.merchant_ari only when ari_type is
\* 'Merchant ARIs', on md.merchant_partner_ari only when ari_type is
\* 'Merchant Partner ARIs', and never on both columns.
C13_OneWhereShape ==
    (ReturnedFrom("generate_populated_sql") /\ (cls = SqlClass => call.args[1])) =>
        /\ FiltersOnMerchant(call.result) => AriTypeIs("Merchant ARIs")
        /\ FiltersOnPartner(call.result) => AriTypeIs("Merchant Partner ARIs")
        /\ ~(FiltersOnMerchant(call.result) /\ FiltersOnPartner(call.result))

\* the tier of a score on a scale, by the share of the scale it reaches
Tier(score, max_score) ==
    CASE 100 * score >= 80 * max_score -> "Excellent"
      [] 100 * score < 80 * max_score /\ 100 * score >= 60 * max_score -> "Good"
      [] 100 * score < 60 * max_score /\ 100 * score >= 40 * max_score -> "Fair"
      [] 100 * score < 40 * max_score /\ 100 * score >= 20 * max_score -> "Poor"
      [] 100 * score < 20 * max_score -> "Very Poor"

TierText ==
    ("Excellent" :> "Excellent - High satisfaction level")
    @@ ("Good" :> "Good - Satisfactory level with room for improvement")
    @@ ("Fair" :> "Fair - Some concerns that need attention")
    @@ ("Poor" :> "Poor - Significant issues requiring immediate attention")
    @@ ("Very Poor" :> "Very Poor - Critical issues requiring urgent action")

\* C14: for a score in 1..max on a scale max, _interpret_satisfaction_score
\* returns the tier of 100*score against 80, 60, 40 and 20 times max
\* (Excellent, Good, Fair, Poor, else Very Poor; 9 of 10 is Excellent), and
\* _get_satisfaction_recommendations returns the same list for every score
\* of the same tier.
C14_SatisfactionTiers ==
    /\ ReturnedFrom("_interpret_satisfaction_score") =>
         call.result = TierText[Tier(call.args[1], call.args[2])]
    /\ ReturnedFrom("_get_satisfaction_recommendations") =>
         \A max_score \in 1..MaxScale : \A score \in 1..max_score :
            Tier(score, max_score) = Tier(call.args[1], call.args[2]) =>
               _get_satisfaction_recommendations(score, max_score) = call.result

\* 9 of 10 is read as Excellent
C14_Witness ==
    /\ ReturnedFrom("_interpret_satisfaction_score")
    /\ call.args = <<9, 10>>
    /\ call.result = "Excellent - High satisfaction level"

\* the interpreters that give a priority; the others give a list of actions
Prioritizers ==
    {"_prioritize_challenges", "_prioritize_pain_points", "_prioritize_concerns"}

\* C15: a multi-select interpreter returns a mapping whose keys are exactly
\* the selected items; the value of an item is the same whatever else is
\* selected with it, it is the entry of the table for an item of the table,
\* and for any other item it is the priority Medium or a list of one
\* generic action.
C15_EachSelectedItemMapped ==
    (pc = "returned" /\ call.fn \in MultiSelectInterpreters) =>
        /\ DOMAIN call.result = Range(call.args[1])
        /\ \A item \in Range(call.args[1]) :
             /\ \A others \in SelectedLists(call.fn) :
                  item \in Range(others) =>
                     Interpret(call.fn, others)[item] = call.result[item]
             /\ item \in DOMAIN TableOf(call.fn) =>
                  call.result[item] = TableOf(call.fn)[item]
             /\ item \notin DOMAIN TableOf(call.fn) =>
                  IF call.fn \in Prioritizers
                  THEN call.result[item] = "Medium"
                  ELSE Len(call.result[item]) = 1

\* concerns with an item of the table and an item of no table
C15_Witness ==
    /\ ReturnedFrom("_prioritize_concerns")
    /\ call.args[1] = <<"Compensation", "None">>
    /\ call.result["Compensation"] = "High"
    /\ call.result["None"] = "Medium"

\* the verdicts
Verdicts == {"_generate_overall_assessment", "_generate_experiment_assessment"}

\* the tier and the score of a verdict
LevelOf(assessment) ==
    IF "risk_level" \in DOMAIN assessment
    THEN assessment.risk_level ELSE assessment.complexity_level

ScoreOf(assessment) ==
    IF "risk_score" \in DOMAIN assessment
    THEN assessment.risk_score ELSE assessment.complexity_score

\* C16: the verdict of every question-set kind gives tier High to a score
\* of 5 or more, Medium to a score of 3 or 4 and Low to a score of 2 or
\* less, and its recommendations with tier High are the same list whatever
\* the responses.
C16_VerdictBuckets ==
    (pc = "returned" /\ call.fn \in Verdicts) =>
        /\ ScoreOf(call.result) >= 5 => LevelOf(call.result) = "High"
        /\ ScoreOf(call.result) \in {3, 4} => LevelOf(call.result) = "Medium"
        /\ ScoreOf(call.result) \in 0..2 => LevelOf(call.result) = "Low"
        /\ LevelOf(call.result) = "High" =>
             \A resp \in AssessedResponses(cls, selected_question_set) :
                LevelOf(Assess(cls, selected_question_set, resp)) = "High" =>
                   Assess(cls, selected_question_set, resp).key_recommendations
                     = call.result.key_recommendations

\* an answer of the response map that is not empty
NonEmptyAnswer(field) ==
    /\ field \in DOMAIN responses
    /\ IF QuestionById(questions, field).type = "multi_select"
       THEN responses[field] # <<>> ELSE responses[field] # ""

Interrupted == pc \in {"interrupted", "raised"}

\* C18: an interrupt at a prompt of one of the three interactive entry
\* points ends the run there: it does not leave the entry point as an
\* exception, the interruption message is printed, and the message is the
\* last thing the run does (no analysis, display, query or file after it).
C18_InterruptAbortsAndIsReported ==
    Interrupted =>
        /\ pc # "raised"
        /\ out # <<>>
        /\ out[Len(out)] = InterruptedMessage
        /\ \A i \in 1..(Len(out) - 1) : out[i] # InterruptedMessage

\* the latest call of save_results, whose write failed
SaveFailed == call.fn = "save_results" /\ ~call.args[2]

\* C19: when the write of the results file fails in save_results, the
\* failure does not leave save_results and is printed as a message, the
\* response map and the analysis are what save_results was given, and
\* run_full_analysis goes on to print its completion message.
C19_SaveFailureReportedRunCompletes ==
    SaveFailed =>
        /\ ~call.result.raised
        /\ ~call.result.saved
        /\ responses = call.args[3]
        /\ analysis_results = call.args[4]
        /\ IF cls = "EnhancedAnalysisQuestionnaire"
           THEN /\ pc = "complete"
                /\ Len(out) >= 2
                /\ SubSeq(out, Len(out) - 1, Len(out))
                     = <<"Error saving results: ", CompleteMessage(cls)>>
           ELSE out[Len(out)] = "Error saving results: "

\* a run of the enhanced questionnaire whose results could not be written
C19_Witness ==
    /\ SaveFailed
    /\ cls = "EnhancedAnalysisQuestionnaire"
    /\ pc = "complete"
    /\ "overall_assessment" \in DOMAIN analysis_results
    /\ "write results" \notin Range(out)

\* a collaborator of the direct operations failed, so that the query did
\* not reach the warehouse
CollaboratorFailed(env) ==
    ~env.connector \/ ~env.credentials \/ ~env.connect_ok \/ ~env.query_ok

\* C20: a warehouse operation returns a record; when the query was not run
\* against the warehouse because a collaborator failed, the record has
\* success = False and an error text; a record with success = True holds
\* the data fetched.
C20_FailuresAreReported ==
    (pc = "returned" /\ call.fn \in WarehouseOperations) =>
        /\ "success" \in DOMAIN call.result
        /\ (call.fn # "execute_sql_via_mcp" /\ CollaboratorFailed(call.args[1])) =>
              (~call.result.success /\ "error" \in DOMAIN call.result)
        /\ call.result.success => "data" \in DOMAIN call.result

\* what the validator is said to refuse: a required key missing, a type tag
\* that is not a question type, a choice question without options
Malformed(q) ==
    \/ \E field \in {"id", "question", "type"} : field \notin DOMAIN q
    \/ q.type \notin {"multiple_choice", "multi_select", "text", "numeric", "date", "rating"}
    \/ /\ q.type \in {"multiple_choice", "multi_select"}
       /\ ("options" \notin DOMAIN q \/ q.options = <<>>)

Constructors == {"create_custom_questionnaire", "create_experiment_monitoring_questions"}

\* C21: a constructor of a custom question set returns None as soon as a
\* question of its list is malformed (it stops at the first such question),
\* and otherwise returns a set whose questions are the list it was given,
\* all of them in the same order.
C21_ConstructorRefusesMalformedList ==
    (pc = "returned" /\ call.fn \in Constructors) =>
        LET qs == call.args[1]
            bad == {i \in 1..Len(qs) : Malformed(qs[i])}
        IN  IF bad # {}
            THEN /\ ~call.result.created
                 /\ call.result.reported \in bad
                 /\ \A i \in bad : call.result.reported <= i
            ELSE /\ call.result.created
                 /\ call.result.set.questions = qs

C21_Witness ==
    /\ ReturnedFrom("create_custom_questionnaire")
    /\ Malformed(call.args[1][3])
    /\ ~call.result.created
    /\ call.result.reported = 3

C21_WitnessCreated ==
    /\ ReturnedFrom("create_experiment_monitoring_questions")
    /\ call.result.created
    /\ Len(call.result.set.questions) = Len(experiment_questions)
    /\ call.args[1] # WordedList(experiment_questions)

\* the invariant of a question: a choice question has options, a rating
\* question has a scale that is a positive integer
QuestionSpec(q) ==
    /\ q.type \in {"multiple_choice", "multi_select"}
         => "options" \in DOMAIN q /\ q.options # <<>>
    /\ q.type = "rating" => Scale(q) \in Nat \ {0}

\* C22: every question that validate_question_format accepts has non-empty
\* options if it is a choice question and a positive integer scale if it is
\* a rating question.
C22_AcceptedQuestionsSatisfyInvariant ==
    (ReturnedFrom("validate_question_format") /\ call.result)
        => QuestionSpec(call.args[1])

\* C27: for a question that validate_question_format accepts, get_user_input
\* reads the user's input and never returns through its unsupported-type
\* branch.
C27_ValidatedTypesAreHandled ==
    ReturnedFrom("get_user_input") => call.result.reads

\* C26: when conduct_questionnaire starts in a run of the custom class
\* EmployeeSatisfactionQuestionnaire, self.questions is still the custom
\* list that its constructor installed and selected_question_set is still
\* 'employee_satisfaction'.
C26_CustomSetSurvivesToConduct ==
    (cls = "EmployeeSatisfactionQuestionnaire" /\ pc = "conduct" /\ qi = 1)
        => /\ questions = custom_questions
           /\ selected_question_set = "employee_satisfaction"

\* the lines of the block of the overall assessment
OverallKinds ==
    {"overall", "recommendation", "risk_level", "overall_health", "risk_score",
     "complexity_level", "complexity_score", "monitoring_scope", "experiment_readiness"}

C28_AnalysisDependsOnCurrentResponsesOnly ==
    pc \in {"analyzed", "analyzed_twice", "reanalyzed"} =>
        analysis_results
          = FreshAnalysis(cls, selected_question_set, questions, responses, now)

\* the lines tried at a prompt: those typed in a run and, at a date prompt,
\* every day of ten years around the dates of the run
CandidateDates == {<<y, m, d>> : y \in 2017..2026, m \in 1..12, d \in 1..31}

Candidates(question) ==
    Typed(question)
    \cup (IF _is_date_question(question) THEN {DateLine(t) : t \in CandidateDates} ELSE {})

\* C24: at every prompt of the experiment-monitoring collector, whatever
\* answers were accepted before, some input is accepted.
C24_EveryPromptHasAnAcceptedInput ==
    (pc = "conduct" /\ cls = "ExperimentMonitoringQuestionnaire" /\ qi <= Len(questions))
        => \E line \in Candidates(questions[qi]) :
              _get_validated_response(responses, questions[qi], qi, line, now).ok

\* C25: a prompt that refuses its answer leaves the response map as it
\* was; a prompt that accepts its answer adds the entry of its question,
\* which had none before, and no prompt changes or removes the entry of
\* another question.
C25_OnlyAcceptedAnswersAreStored ==
    [][pc = "conduct" =>
         /\ questions[qi].id \notin DOMAIN responses
         /\ \A k \in DOMAIN responses : k \in DOMAIN responses' /\ responses'[k] = responses[k]
         /\ ~last'.accepted => responses' = responses
         /\ last'.accepted => DOMAIN responses' = DOMAIN responses \cup {questions[qi].id}
      ]_vars

C25_Witness ==
    /\ cls = "ExperimentMonitoringQuestionnaire"
    /\ pc = "conduct"
    /\ last.read
    /\ ~last.accepted
    /\ "Control period end date cannot be on or after test period start date"
         \in Range(last.validation.errors)
    /\ questions[qi].id = "control_end_date"
    /\ DOMAIN responses = {questions[k].id : k \in 1..(qi - 1)}

\* the number of times x occurs in list
Occurrences(list, x) == Cardinality({i \in 1..Len(list) : list[i] = x})

\* C29: when 'All metrics from above' is among the selected metrics,
\* _compile_all_metrics returns a list with each of the 14 individual
\* metrics exactly once, without duplicates and without the entry
\* 'All metrics from above'.
C29_AllMetricsCompiledOnce ==
    (ReturnedFrom("_compile_all_metrics")
     /\ "All metrics from above" \in Range(call.args[1]))
        => /\ \A k \in 1..Len(individual_metrics) :
                Occurrences(call.result, individual_metrics[k]) = 1
           /\ \A i, j \in 1..Len(call.result) : call.result[i] = call.result[j] => i = j
           /\ "All metrics from above" \notin Range(call.result)

\* C30: when generate_populated_sql fails in run_interactive_questionnaire
\* (query.sql cannot be read), no SQL file is written and the failure is
\* reported as an error; a SQL file is written and success reported only
\* for a query that was populated.
C30_FailedGenerationWritesNoFile ==
    (pc = "complete" /\ cls = SqlClass /\ call.fn = "generate_populated_sql"
     /\ ~call.args[1])
        => /\ "write query" \notin Range(out)
           /\ "SQL QUERY GENERATED!" \notin Range(out)
           /\ "Error generating SQL: " \in Range(out)
====
